---------------------------- MODULE Spec2Model ----------------------------
(***************************************************************************)
(* IndoGap analytical core: the similarity engine (text processor, TF-IDF  *)
(* vectorizer, embedding fallback, category matcher) and the seven         *)
(* dimension scorer (rule tables, delegated scoring, fallback,             *)
(* aggregation).                                                           *)
(*                                                                         *)
(* Numbers.  The program computes in floating point.  Here a sub-score in  *)
(* [0,1] is an integer number of thousandths (One = 1.0), a similarity     *)
(* weight is a number of thousandths too, and the combined similarity is   *)
(* their product, in millionths (One * One = 1.0).  Quotients are rounded  *)
(* towards zero.                                                           *)
(***************************************************************************)
EXTENDS Integers, Sequences, FiniteSets, TLC

VARIABLES
    \* ---- SimilarityEngine / TextProcessor ----
    engine,       \* constructor-time configuration of the SimilarityEngine
    vectorizer,   \* TextProcessor.vectorizer: none, created-but-unfitted, fitted
    simCall,      \* the last compare() call and the provider outcomes it met
    simResult,    \* what that call gave back: a SimilarityMatch or a raised error
    \* ---- SevenDimensionScorer ----
    settings,     \* the Settings environment (scoring_weights, has_openai_key)
    scorer,       \* the scorer instance, or the record of a rejected construction
    scoreCall,    \* the last score() call: request, provider replies, calls made
    scoreResult,  \* the ScoringResponse of that call and the dimensions computed
    \* ---- BaseScorer.calculate_overall_score as a function ----
    aggIn,        \* its arguments
    aggOut,       \* its result
    \* ---- SimilarityEngine: the candidate set and the searches over it ----
    indian_startups,     \* SimilarityEngine._indian_startups
    startup_embeddings,  \* SimilarityEngine._startup_embeddings
    matchCall,    \* the last load / find_best_match / find_all_matches / detect_gap call
    matchResult,  \* what that call gave back
    \* ---- CategoryMatcher.calculate_category_match as a function ----
    catIn,        \* its arguments
    catOut,       \* its result, and its result on the swapped arguments
    \* ---- EmbeddingGenerator.generate_batch_async ----
    batch,        \* the running batch: its tasks, the semaphore, the result
    \* ---- TextProcessor.clean_text and process as functions of a text ----
    textCall,     \* the text given, and what clean_text / process gave for it
    \* ---- CategoryMatcher.infer_category as a function ----
    inferCall,    \* its arguments and its result
    \* ---- SimpleCache and the @cached decorator ----
    cache,        \* the SimpleCache instance: _cache, default_ttl, _hits, _misses
    now,          \* time.time()
    cacheCall,    \* the last call on the cache and what it gave
    cacheHistory, \* for each key, the last set, delete or clear that reached it
    \* ---- score() calls running concurrently on one SevenDimensionScorer ----
    scoreCalls,   \* the shared use_llm and client, and each call's position
    \* ---- BaseScraper._make_request ----
    fetch         \* the last request: server outcomes, attempts made, what was raised

simVars   == <<engine, vectorizer, simCall, simResult>>
scoreVars == <<settings, scorer, scoreCall, scoreResult>>
aggVars   == <<aggIn, aggOut>>
matchVars == <<indian_startups, startup_embeddings, matchCall, matchResult>>
catVars   == <<catIn, catOut>>
vars      == <<engine, vectorizer, simCall, simResult,
               settings, scorer, scoreCall, scoreResult, aggIn, aggOut,
               indian_startups, startup_embeddings, matchCall, matchResult,
               catIn, catOut, batch, textCall, inferCall,
               cache, now, cacheCall, cacheHistory, scoreCalls, fetch>>

\* the variables of the parts added to the engine and the scorer
cacheVars == <<cache, now, cacheCall, cacheHistory>>
extVars   == <<batch, textCall, inferCall, cacheVars, scoreCalls, fetch>>

None == "none"

(***************************************************************************)
(* Bounds of the model.                                                    *)
(***************************************************************************)
MaxDescLen == 1      \* words in a company's description
MaxPhrases == 2      \* phrases in a scoring request's description
MaxScored  == 2      \* score() calls a scorer's statistics count
MaxStartups == 2     \* candidates in a loaded list
MaxTags    == 2      \* tags in a list given to calculate_category_match
MaxBatch   == 3      \* texts in a batch given to generate_batch_async
MaxPieces  == 3      \* pieces a text given to the text processor is made of
MaxInferPhrases == 3 \* phrases in a text given to infer_category
MaxTime    == 2      \* seconds the clock of the cache runs for
MaxGets    == 2      \* lookups the statistics of a cache count
MaxNesting == 2      \* fallbacks one score() call has in progress at once
MaxRequests == 2     \* requests a scraper's _request_count counts

(***************************************************************************)
(* Scale and program constants.                                            *)
(***************************************************************************)
One     == 1000      \* 1.0
Neutral == 500       \* the neutral sub-score 0.5
DefaultDescriptionWeight == 600
DefaultCategoryWeight    == 300
DefaultKeywordWeight     == 100
KeywordTopN == 10    \* extract_keywords(top_n=10)

(***************************************************************************)
(* Generic helpers.                                                        *)
(***************************************************************************)
RECURSIVE SeqsUpTo(_, _)
SeqsUpTo(S, n) ==
    IF n = 0 THEN {<<>>}
    ELSE LET shorter == SeqsUpTo(S, n - 1)
         IN  shorter \cup {Append(s, x) : s \in {t \in shorter : Len(t) = n - 1}, x \in S}

Range(s) == {s[i] : i \in DOMAIN s}

RECURSIVE SumSet(_, _)
\* the sum of f[x] over x in S
SumSet(S, f) ==
    IF S = {} THEN 0
    ELSE LET x == CHOOSE y \in S : TRUE
         IN  f[x] + SumSet(S \ {x}, f)

RECURSIVE Bisect(_, _, _)
\* the largest k in lo..hi with k * k <= n   (lo * lo <= n is given)
Bisect(lo, hi, n) ==
    IF lo >= hi THEN lo
    ELSE LET mid == (lo + hi + 1) \div 2
         IN  IF mid * mid <= n THEN Bisect(mid, hi, n) ELSE Bisect(lo, mid - 1, n)

ISqrt(n) == Bisect(0, One, n)

Abs(x) == IF x < 0 THEN -x ELSE x

Min(a, b) == IF a < b THEN a ELSE b
Max(a, b) == IF a > b THEN a ELSE b

\* dot / sqrt(n1 * n2) in thousandths, rounded towards zero; n1, n2 > 0
CosineOf(dot, n1, n2) ==
    (IF dot < 0 THEN -1 ELSE 1) * ISqrt((One * One * dot * dot) \div (n1 * n2))

\* the cosine, 0 when a norm is zero
CosineOrZero(dot, n1, n2) == IF n1 = 0 \/ n2 = 0 THEN 0 ELSE CosineOf(dot, n1, n2)


(***************************************************************************)
(* The alphabet of the similarity model.  A text is a sequence of words;   *)
(* the separators between them are not represented.                        *)
(***************************************************************************)
Words    == {"payments", "food", "the"}
TagNames == {"Food"}

Descriptions == SeqsUpTo(Words, MaxDescLen)
TagLists     == SeqsUpTo(TagNames, 1)
\* a company record: description and tags (no name, no categories key)
Companies    == [desc : Descriptions, tags : TagLists]

\* str.lower() on the alphabet
Lower(w) ==
    CASE w = "Food"   -> "food"
      [] w = "SaaS"   -> "saas"
      [] w = "Gaming" -> "gaming"
      [] w = "B2B software platform" -> "b2b software platform"
      [] OTHER        -> w

\* PorterStemmer.stem on the alphabet
Stem(w) == IF w = "payments" THEN "payment" ELSE w

\* sklearn's 'english' stop word list, restricted to the alphabet
SklearnStopWords == {"the"}
\* TextProcessor.stop_words (NLTK english + startup words), restricted likewise
stop_words == {"the"}

(***************************************************************************)
(* TextProcessor                                                           *)
(***************************************************************************)
\* clean_text: "" for empty input, lowercase, strip, collapse whitespace
clean_text(text) ==
    IF text = <<>> THEN <<>> ELSE [i \in DOMAIN text |-> Lower(text[i])]

\* tokenize: whitespace split, keep words whose length is within the bounds
\* (every word of the alphabet is)
tokenize(text) == text

remove_stopwords(tokens) == SelectSeq(tokens, LAMBDA t : Lower(t) \notin stop_words)

stem_tokens(tokens) == [i \in DOMAIN tokens |-> Stem(tokens[i])]

CountIn(tokens, w) == Cardinality({i \in DOMAIN tokens : tokens[i] = w})

\* the distinct elements of tokens in order of first occurrence
FirstOccurrences(tokens) ==
    SelectSeq([i \in DOMAIN tokens |->
                  IF \E j \in 1..(i - 1) : tokens[j] = tokens[i] THEN None ELSE tokens[i]],
              LAMBDA t : t # None)

RECURSIVE MostCommon(_, _, _)
\* Counter.most_common(n): by count, descending, ties in insertion order
MostCommon(tokens, rest, n) ==
    IF n = 0 \/ rest = <<>> THEN <<>>
    ELSE LET best == CHOOSE i \in DOMAIN rest :
                        /\ \A j \in DOMAIN rest : CountIn(tokens, rest[j]) <= CountIn(tokens, rest[i])
                        /\ \A j \in 1..(i - 1) : CountIn(tokens, rest[j]) < CountIn(tokens, rest[i])
         IN  <<rest[best]>> \o
             MostCommon(tokens,
                        SubSeq(rest, 1, best - 1) \o SubSeq(rest, best + 1, Len(rest)),
                        n - 1)

extract_keywords(tokens) ==
    IF tokens = <<>> THEN <<>>
    ELSE MostCommon(tokens, FirstOccurrences(tokens), KeywordTopN)

\* process(text).keywords (use_stemming = True, use_lemmatization = False)
process_keywords(text) ==
    extract_keywords(stem_tokens(remove_stopwords(tokenize(clean_text(text)))))

\* _word_overlap_similarity
OverlapOf(set1, set2) ==
    IF set1 = {} \/ set2 = {} THEN 0
    ELSE (Cardinality(set1 \cap set2) * One)
            \div (IF Cardinality(set1) < Cardinality(set2)
                  THEN Cardinality(set1) ELSE Cardinality(set2))

word_overlap_similarity(text1, text2) ==
    OverlapOf(Range(process_keywords(text1)), Range(process_keywords(text2)))

(***************************************************************************)
(* The TfidfVectorizer the processor creates: ngram_range = (1, 2),        *)
(* min_df = 1, max_df = 0.95, stop_words = 'english'.                      *)
(***************************************************************************)
MaxDfPercent == 95
MinDf        == 1

\* the vectorizer's analyzer: lowercase, drop stop words, then 1- and 2-grams
Analyze(text) == SelectSeq(clean_text(text), LAMBDA t : t \notin SklearnStopWords)

Features(text) ==
    LET toks == Analyze(text)
    IN  {<<toks[i]>> : i \in DOMAIN toks}
          \cup {<<toks[i], toks[i + 1]>> : i \in 1..(Len(toks) - 1)}

FeatureCount(text, f) ==
    LET toks == Analyze(text)
    IN  Cardinality({i \in 1..(Len(toks) - Len(f) + 1) : SubSeq(toks, i, i + Len(f) - 1) = f})

\* TfidfVectorizer.fit on a corpus: the vocabulary kept, or a ValueError
\* ("empty vocabulary", "After pruning, no terms remain")
DocumentFrequency(texts, f) ==
    Cardinality({i \in DOMAIN texts : f \in Features(texts[i])})

\* min_df <= df and df <= max_df * n_docs
KeptByDf(df, n_docs) == df >= MinDf /\ df * 100 <= MaxDfPercent * n_docs

FitResult(kept) == [ok |-> kept # {}, vocabulary |-> kept]

FitVocabulary(texts) ==
    FitResult({f \in UNION {Features(texts[i]) : i \in DOMAIN texts} :
                  KeptByDf(DocumentFrequency(texts, f), Len(texts))})

NoVectorizer       == [state |-> "none", vocabulary |-> {}]
UnfittedVectorizer == [state |-> "unfitted", vocabulary |-> {}]

\* create_tfidf_vectorizer: self.vectorizer is assigned before fit() runs, so a
\* failing fit leaves an unfitted vectorizer behind
Created(fit) ==
    IF fit.ok THEN [raised |-> FALSE,
                    vz |-> [state |-> "fitted", vocabulary |-> fit.vocabulary]]
    ELSE [raised |-> TRUE, vz |-> UnfittedVectorizer]

create_tfidf_vectorizer(texts) == Created(FitVocabulary(texts))

\* cosine of the two TF-IDF rows.  Every term of an on-the-fly vocabulary has
\* document frequency 1, hence one idf for all: the rows are the term counts
\* up to a common factor, which the cosine cancels.  A zero row gives 0.
RowCosine(vocabulary, c1, c2) ==
    CosineOrZero(SumSet(vocabulary, [f \in vocabulary |-> c1[f] * c2[f]]),
                 SumSet(vocabulary, [f \in vocabulary |-> c1[f] * c1[f]]),
                 SumSet(vocabulary, [f \in vocabulary |-> c2[f] * c2[f]]))

TfidfCosine(vocabulary, text1, text2) ==
    RowCosine(vocabulary,
              [f \in vocabulary |-> FeatureCount(text1, f)],
              [f \in vocabulary |-> FeatureCount(text2, f)])

\* TextProcessor._tfidf_similarity from vectorizer state vz:
\* [raised, value, method, vz]
SimilarityWith(created, text1, text2) ==
    IF created.raised
    THEN [raised |-> TRUE, value |-> 0, method |-> "tfidf", vz |-> created.vz]
    ELSE IF created.vz.state = "fitted"
    THEN [raised |-> FALSE,
          value  |-> TfidfCosine(created.vz.vocabulary, text1, text2),
          method |-> "tfidf", vz |-> created.vz]
    \* transform_text raises NotFittedError inside the try block
    ELSE [raised |-> FALSE,
          value  |-> word_overlap_similarity(text1, text2),
          method |-> "word_overlap", vz |-> created.vz]

tfidf_similarity(vz, text1, text2) ==
    SimilarityWith(IF vz.state = "none"
                   THEN create_tfidf_vectorizer(<<text1, text2>>)
                   ELSE [raised |-> FALSE, vz |-> vz],
                   text1, text2)


(***************************************************************************)
(* CategoryMatcher                                                         *)
(***************************************************************************)
\* |a & b| / |a | b| in thousandths
Jaccard(a, b) == (Cardinality(a \cap b) * One) \div Cardinality(a \cup b)

JaccardOrNeutral(a, b) == IF a \cup b = {} THEN Neutral ELSE Jaccard(a, b)

\* the match of the tags as written, without lower()
calculate_category_match_CaseSensitive(source_categories, target_categories) ==
    IF source_categories = <<>> \/ target_categories = <<>> THEN Neutral
    ELSE JaccardOrNeutral(Range(source_categories), Range(target_categories))

\* CategoryMatcher.calculate_category_match
calculate_category_match(source_categories, target_categories) ==
    IF source_categories = <<>> \/ target_categories = <<>> THEN Neutral
    ELSE JaccardOrNeutral({Lower(c) : c \in Range(source_categories)},
                          {Lower(c) : c \in Range(target_categories)})

(***************************************************************************)
(* EmbeddingGenerator and the embedding provider.  A provider reply is a   *)
(* failure (error, timeout) or an embedding vector; the cosine is          *)
(* invariant under the L2 normalisation, so vectors stay integer.          *)
(***************************************************************************)
EmbeddingVectors == {<<1, 0>>, <<-1, 1>>}
ProviderFailure  == [kind |-> "failure", vector |-> <<>>]
NoReply          == [kind |-> "unused", vector |-> <<>>]
EmbeddingReplies ==
    {ProviderFailure} \cup {[kind |-> "embedding", vector |-> v] : v \in EmbeddingVectors}

\* EmbeddingGenerator.generate: no request for an empty text; every provider
\* error is caught and reported as success = False
generate(text, reply) ==
    IF text = <<>> THEN [success |-> FALSE, embedding |-> <<>>]
    ELSE IF reply.kind # "embedding" THEN [success |-> FALSE, embedding |-> <<>>]
    ELSE [success |-> TRUE, embedding |-> reply.vector]

Dot(u, v) == SumSet(DOMAIN u, [i \in DOMAIN u |-> u[i] * v[i]])

calculate_cosine_similarity(embedding1, embedding2) ==
    CosineOrZero(Dot(embedding1, embedding2),
                 Dot(embedding1, embedding1), Dot(embedding2, embedding2))

(***************************************************************************)
(* SimilarityEngine                                                        *)
(***************************************************************************)
DefaultWeights ==
    [description |-> DefaultDescriptionWeight,
     category    |-> DefaultCategoryWeight,
     keyword     |-> DefaultKeywordWeight]

\* weights the constructor is given; it accepts whatever it is given
WeightChoices ==
    {DefaultWeights, [description |-> One, category |-> One, keyword |-> One]}

\* _get_company_text: the non-empty parts, joined
get_company_text(company) == company.desc \o company.tags

\* SimilarityEngine._tfidf_similarity
engine_tfidf_similarity(vz, text1, text2) == tfidf_similarity(vz, text1, text2)

\* SimilarityEngine._embedding_similarity: [raised, value, method, vz]
embedding_similarity(eng, vz, text1, text2, reply1, reply2) ==
    IF eng.has_generator /\ generate(text1, reply1).success
                         /\ generate(text2, reply2).success
    THEN [raised |-> FALSE,
          value  |-> calculate_cosine_similarity(generate(text1, reply1).embedding,
                                                 generate(text2, reply2).embedding),
          method |-> "embedding", vz |-> vz]
    ELSE engine_tfidf_similarity(vz, text1, text2)

\* _keyword_comparison: [overlap, matched, missing]
KeywordResult(keywords1, keywords2) ==
    IF keywords1 = {}
    THEN [overlap |-> Neutral, matched |-> {}, missing |-> keywords2]
    ELSE IF keywords1 \cup keywords2 = {}
    THEN [overlap |-> Neutral, matched |-> {}, missing |-> {}]
    ELSE [overlap |-> Jaccard(keywords1, keywords2),
          matched |-> keywords1 \cap keywords2,
          missing |-> keywords2 \ keywords1]

keyword_comparison(text1, text2) ==
    KeywordResult(Range(process_keywords(text1)), Range(process_keywords(text2)))

\* the weighted sum of the three sub-scores, in millionths
OverallSimilarity(weights, desc_sim, cat_match, kw_overlap) ==
    desc_sim * weights.description
      + cat_match * weights.category
      + kw_overlap * weights.keyword

\* a gap score taken on the scale of a sub-score instead of the combined one
GapScore_Mutant(overall) == One - overall

\* gap_score = 1.0 - overall
GapScore(overall) == One * One - overall

NoMatch ==
    [kind |-> "none", similarity_score |-> 0, gap_score |-> 0, category_match |-> 0,
     desc_sim |-> 0, kw_overlap |-> 0, method |-> "none"]

\* the SimilarityMatch of an overall score and its parts
SimilarityMatch(overall, desc, cat_match, kw_overlap) ==
    [kind             |-> "match",
     similarity_score |-> overall,
     gap_score        |-> GapScore(overall),
     category_match   |-> cat_match,
     desc_sim         |-> desc.value,
     kw_overlap       |-> kw_overlap,
     method           |-> desc.method]

\* compare() once the three sub-scores are there
Compared(eng, desc, cat_match, kw_overlap) ==
    IF desc.raised
    THEN [result |-> [NoMatch EXCEPT !.kind = "error", !.method = desc.method],
          vz |-> desc.vz]
    ELSE [result |-> SimilarityMatch(
                         OverallSimilarity(eng.weights, desc.value, cat_match, kw_overlap),
                         desc, cat_match, kw_overlap),
          vz |-> desc.vz]

\* the description similarity of compare(): [raised, value, method, vz]
description_similarity(eng, vz, source_text, target_text, reply1, reply2) ==
    IF eng.use_embeddings
    THEN embedding_similarity(eng, vz, source_text, target_text, reply1, reply2)
    ELSE engine_tfidf_similarity(vz, source_text, target_text)

\* SimilarityEngine.compare from vectorizer state vz: [result, vz]
compare(eng, vz, source, target, reply1, reply2) ==
    Compared(eng,
             description_similarity(eng, vz, get_company_text(source),
                                    get_company_text(target), reply1, reply2),
             calculate_category_match(source.tags, target.tags),
             keyword_comparison(get_company_text(source),
                                get_company_text(target)).overlap)


(***************************************************************************)
(* SimilarityEngine: the candidate set.  A row of the embedding matrix is  *)
(* written as the text the provider embedded for it.                       *)
(***************************************************************************)
\* the text _build_startup_embeddings embeds for a startup
startup_text(s) == s.desc \o s.tags

\* _startup_embeddings = None
NoEmbeddings == [built |-> FALSE, rows |-> <<>>]

\* the outcomes of the provider for one batch request
BatchReplies == {"embeddings", "failure"}

\* EmbeddingGenerator.generate_batch on texts that fit one batch:
\* no request for an empty list; a failed batch leaves no embeddings
generate_batch(texts, reply) ==
    IF texts = <<>> THEN [success |-> TRUE, embeddings |-> <<>>]
    ELSE IF reply = "embeddings" THEN [success |-> TRUE, embeddings |-> texts]
    ELSE [success |-> FALSE, embeddings |-> <<>>]

\* the matrix after the batch result: replaced on success, kept otherwise
StoredEmbeddings(old, result) ==
    IF result.success /\ result.embeddings # <<>>
    THEN [built |-> TRUE, rows |-> result.embeddings]
    ELSE old

\* SimilarityEngine._build_startup_embeddings
build_startup_embeddings(eng, startups, old, reply) ==
    IF startups = <<>> \/ ~eng.has_generator THEN old
    ELSE StoredEmbeddings(old,
             generate_batch([i \in DOMAIN startups |-> startup_text(startups[i])],
                            reply))

\* SimilarityEngine.load_indian_startups
load_indian_startups(eng, old, startups, rebuild_embeddings, reply) ==
    [indian_startups    |-> startups,
     startup_embeddings |-> IF eng.use_embeddings /\ rebuild_embeddings
                            THEN build_startup_embeddings(eng, startups, old, reply)
                            ELSE old]

(***************************************************************************)
(* SimilarityEngine: the searches.  During one search the embedding        *)
(* provider is up or down; when up it embeds a text as EmbeddingOf gives.  *)
(***************************************************************************)
ProviderStates == {"up", "down"}

EmbeddingOf(text) == IF "payments" \in Range(text) THEN <<1, 0>> ELSE <<-1, 1>>

\* the provider's reply to generate(text) during a search
ReplyTo(eng, provider, text) ==
    IF ~eng.use_embeddings THEN NoReply
    ELSE IF provider = "up" THEN [kind |-> "embedding", vector |-> EmbeddingOf(text)]
    ELSE ProviderFailure

\* the state of a search loop: the matches kept so far, every match
\* compare() gave so far (scored), the vectorizer, and whether a compare()
\* raised
Found(matches, scored, vz) ==
    [raised |-> FALSE, matches |-> matches, scored |-> scored, vz |-> vz]
SearchRaised(scored, vz) ==
    [raised |-> TRUE, matches |-> <<>>, scored |-> scored, vz |-> vz]

\* the loop of find_best_match after compare() on candidate i: the match is
\* appended; an exception of compare() ends the loop
AfterCompare(acc, i, out) ==
    IF out.result.kind = "error" THEN SearchRaised(acc.scored, out.vz)
    ELSE Found(Append(acc.matches, [index |-> i, match |-> out.result]),
               Append(acc.scored, [index |-> i, match |-> out.result]),
               out.vz)

\* the loop of find_all_matches: the match is appended when
\* match.similarity_score >= threshold
AfterCompareAbove(acc, i, out, threshold) ==
    IF out.result.kind = "error" THEN SearchRaised(acc.scored, out.vz)
    ELSE Found(IF out.result.similarity_score >= threshold
               THEN Append(acc.matches, [index |-> i, match |-> out.result])
               ELSE acc.matches,
               Append(acc.scored, [index |-> i, match |-> out.result]),
               out.vz)

\* compare(source, target) within a search
CompareWith(eng, vz, source, target, provider) ==
    compare(eng, vz, source, target,
            ReplyTo(eng, provider, get_company_text(source)),
            ReplyTo(eng, provider, get_company_text(target)))

\* the filter of a loop: none in find_best_match, the threshold in
\* find_all_matches
NoFilter       == [on |-> FALSE, threshold |-> 0]
AtLeast(value) == [on |-> TRUE, threshold |-> value]

\* for target in self._indian_startups: ...
RECURSIVE CompareEach(_, _, _, _, _, _, _)
CompareEach(eng, source, startups, provider, filter, i, acc) ==
    IF i > Len(startups) \/ acc.raised THEN acc
    ELSE CompareEach(eng, source, startups, provider, filter, i + 1,
             IF filter.on
             THEN AfterCompareAbove(acc, i,
                      CompareWith(eng, acc.vz, source, startups[i], provider),
                      filter.threshold)
             ELSE AfterCompare(acc, i,
                      CompareWith(eng, acc.vz, source, startups[i], provider)))

\* matches.sort(key=similarity_score, reverse=True): a stable sort, by
\* repeated selection of the first entry with the highest score
RECURSIVE SortedBySimilarity(_)
SortedBySimilarity(matches) ==
    IF matches = <<>> THEN <<>>
    ELSE LET highest == CHOOSE i \in DOMAIN matches :
                /\ \A j \in DOMAIN matches :
                      matches[j].match.similarity_score <= matches[i].match.similarity_score
                /\ \A j \in 1..(i - 1) :
                      matches[j].match.similarity_score < matches[i].match.similarity_score
             rest == [k \in 1..(Len(matches) - 1) |->
                         IF k < highest THEN matches[k] ELSE matches[k + 1]]
         IN  <<matches[highest]>> \o SortedBySimilarity(rest)

\* the slice s[:n]
Prefix(s, n) ==
    SubSeq(s, 1, IF n >= 0 THEN Min(n, Len(s)) ELSE Max(0, Len(s) + n))

\* find_best_match after its loop: sort, slice
BestOf(run, top_n) ==
    IF run.raised THEN run
    ELSE Found(Prefix(SortedBySimilarity(run.matches), top_n), run.scored, run.vz)

\* SimilarityEngine.find_best_match
find_best_match(eng, vz, startups, source, top_n, provider) ==
    IF startups = <<>> THEN Found(<<>>, <<>>, vz)
    ELSE BestOf(CompareEach(eng, source, startups, provider, NoFilter, 1,
                            Found(<<>>, <<>>, vz)),
                top_n)

\* find_all_matches after its loop: sort
AllOf(run) ==
    IF run.raised THEN run
    ELSE Found(SortedBySimilarity(run.matches), run.scored, run.vz)

\* SimilarityEngine.find_all_matches
find_all_matches(eng, vz, startups, source, threshold, provider) ==
    IF startups = <<>> THEN Found(<<>>, <<>>, vz)
    ELSE AllOf(CompareEach(eng, source, startups, provider, AtLeast(threshold), 1,
                           Found(<<>>, <<>>, vz)))

\* the opportunity level detect_gap reads off the best similarity (millionths)
GapLevel(similarity_score) ==
    IF similarity_score < 300 * One THEN "high"
    ELSE IF similarity_score < 500 * One THEN "medium"
    ELSE IF similarity_score < 700 * One THEN "low"
    ELSE "saturated"

NoBestMatch == [index |-> 0, match |-> NoMatch]

\* a SimilarityResult
SimilarityResult(best_match, all_matches, gap_detected, opportunity_level, method) ==
    [best_match |-> best_match, all_matches |-> all_matches,
     gap_detected |-> gap_detected, opportunity_level |-> opportunity_level,
     analysis_method |-> method]

NoSimilarityResult == SimilarityResult(NoBestMatch, <<>>, FALSE, "", "")

\* analysis_method of a SimilarityResult
AnalysisMethod(eng) == IF eng.use_embeddings THEN "embedding" ELSE "tfidf"

\* detect_gap once find_best_match(source, top_n=5) is back:
\* [raised, result, scored, vz]
GapOf(eng, found) ==
    [raised |-> found.raised,
     scored |-> found.scored,
     vz     |-> found.vz,
     result |-> IF found.raised THEN NoSimilarityResult
                ELSE IF found.matches = <<>>
                THEN SimilarityResult(NoBestMatch, <<>>, TRUE, "high",
                                      AnalysisMethod(eng))
                ELSE SimilarityResult(
                         found.matches[1], found.matches,
                         found.matches[1].match.similarity_score < 500 * One,
                         GapLevel(found.matches[1].match.similarity_score),
                         AnalysisMethod(eng))]

\* detect_gap without its branch for an empty list of matches: matches[0]
\* raises
detect_gap_NoEmptyBranch(eng, vz, startups, source, provider) ==
    IF startups = <<>>
    THEN [raised |-> TRUE, scored |-> <<>>, vz |-> vz, result |-> NoSimilarityResult]
    ELSE GapOf(eng, find_best_match(eng, vz, startups, source, 5, provider))

\* SimilarityEngine.detect_gap
detect_gap(eng, vz, startups, source, provider) ==
    GapOf(eng, find_best_match(eng, vz, startups, source, 5, provider))


(***************************************************************************)
(* Scoring: data (scoring/base.py, config.py).  A dimension weight is a    *)
(* number of thousandths, a confidence a number of hundredths, and an      *)
(* overall score the exact fraction num/den.                               *)
(***************************************************************************)

\* the values of the ScoringDimension enumeration
ScoringDimension ==
    {"cultural_fit", "logistics", "payment_readiness", "timing",
     "monopoly_potential", "regulatory_risk", "execution_feasibility"}

\* Settings.scoring_weights, its default
DefaultScoringWeights ==
    [d \in ScoringDimension |-> IF d = "monopoly_potential" THEN 100 ELSE 150]

\* a mapping without keys
EmptyMapping == [d \in {} |-> 0]

\* dict.get(key, default)
Get(mapping, key, default) ==
    IF key \in DOMAIN mapping THEN mapping[key] ELSE default

\* the scoring_weights an environment can configure: the default, weights
\* that miss 1.0 by 0.001, weights that sum to 1.1, and an empty mapping
ScoringWeightChoices ==
    {DefaultScoringWeights,
     [DefaultScoringWeights EXCEPT !["monopoly_potential"] = 101],
     [DefaultScoringWeights EXCEPT !["monopoly_potential"] = 200],
     EmptyMapping}

\* abs(total - 1.0) > 0.001
WeightTolerance == 1

\* Settings.validate_scoring_weights: TRUE when the validator raises
validate_scoring_weights(v) ==
    IF DOMAIN v = {} THEN FALSE
    ELSE LET total == SumSet(DOMAIN v, v)
         IN  Abs(total - One) > WeightTolerance

\* get_settings(): Settings() runs the validators on the configured values
get_settings(env) == [raised |-> validate_scoring_weights(env.scoring_weights)]

\* DimensionScore(dimension, score, weight, confidence); the reasoning texts
\* the rules write are left out, a rule's score carries the empty text
DimensionScore(dimension, score, weight, confidence) ==
    [dimension |-> dimension, score |-> score,
     weight |-> weight, confidence |-> confidence, reasoning |-> <<>>]

\* the overall score 0.0
ZeroScore == [num |-> 0, den |-> 1]

\* a >= b for fractions with positive denominators
FracGeq(a, b) == a.num * b.den >= b.num * a.den

\* the weighted mean under the supplied weights alone
calculate_overall_score_Supplied(dimensions, weights) ==
    IF dimensions = <<>> THEN ZeroScore
    ELSE LET weight == [i \in DOMAIN dimensions |->
                          Get(weights, dimensions[i].dimension, 150)]
             total_weighted == SumSet(DOMAIN dimensions,
                 [i \in DOMAIN dimensions |-> dimensions[i].score * weight[i]])
             total_weight == SumSet(DOMAIN dimensions, weight)
         IN  IF total_weight = 0 THEN ZeroScore
             ELSE [num |-> total_weighted, den |-> total_weight * 10]

\* BaseScorer.calculate_overall_score:
\*   weight = dim_score.weight or weights.get(dim_name, 0.15)
calculate_overall_score(dimensions, weights) ==
    IF dimensions = <<>> THEN ZeroScore
    ELSE LET weight == [i \in DOMAIN dimensions |->
                          IF dimensions[i].weight # 0
                          THEN dimensions[i].weight
                          ELSE Get(weights, dimensions[i].dimension, 150)]
             total_weighted == SumSet(DOMAIN dimensions,
                 [i \in DOMAIN dimensions |-> dimensions[i].score * weight[i]])
             total_weight == SumSet(DOMAIN dimensions, weight)
         IN  IF total_weight = 0 THEN ZeroScore
             ELSE [num |-> total_weighted, den |-> total_weight * 10]

\* the thresholds read as strict bounds
determine_opportunity_level_Strict(overall_score) ==
    IF ~FracGeq([num |-> 7, den |-> 10], overall_score) THEN "high"
    ELSE IF ~FracGeq([num |-> 5, den |-> 10], overall_score) THEN "medium"
    ELSE IF ~FracGeq([num |-> 3, den |-> 10], overall_score) THEN "low"
    ELSE "very_low"

\* BaseScorer.determine_opportunity_level
determine_opportunity_level(overall_score) ==
    IF FracGeq(overall_score, [num |-> 7, den |-> 10]) THEN "high"
    ELSE IF FracGeq(overall_score, [num |-> 5, den |-> 10]) THEN "medium"
    ELSE IF FracGeq(overall_score, [num |-> 3, den |-> 10]) THEN "low"
    ELSE "very_low"

\* BaseScorer.generate_recommendation: the four texts, by their first words
generate_recommendation(opportunity_level) ==
    CASE opportunity_level = "high"   -> "Strong opportunity"
      [] opportunity_level = "medium" -> "Moderate opportunity"
      [] opportunity_level = "low"    -> "Limited opportunity"
      [] OTHER                        -> "Not recommended at this time"

\* sorted(values, key=score): a stable sort, by repeated selection of the
\* first entry with the lowest score
RECURSIVE SortedByScore(_)
SortedByScore(dims) ==
    IF dims = <<>> THEN <<>>
    ELSE LET lowest == CHOOSE i \in DOMAIN dims :
                          /\ \A j \in DOMAIN dims : dims[i].score <= dims[j].score
                          /\ \A j \in 1..(i - 1) : dims[j].score > dims[i].score
             rest == [k \in 1..(Len(dims) - 1) |->
                         IF k < lowest THEN dims[k] ELSE dims[k + 1]]
         IN  <<dims[lowest]>> \o SortedByScore(rest)

\* ScoringResponse.get_top_weaknesses
get_top_weaknesses(dimensions, count) ==
    SubSeq(SortedByScore(dimensions), 1, Min(count, Len(dimensions)))

\* the step generate_next_steps has for a weak dimension, <<>> when it has none
StepFor(dimension) ==
    CASE dimension = "cultural_fit"          -> <<"Conduct user research">>
      [] dimension = "logistics"             -> <<"Investigate infrastructure partnerships">>
      [] dimension = "payment_readiness"     -> <<"Research pricing sensitivity">>
      [] dimension = "timing"                -> <<"Reassess market timing">>
      [] dimension = "regulatory_risk"       -> <<"Consult legal experts">>
      [] dimension = "execution_feasibility" -> <<"Evaluate team capabilities">>
      [] OTHER                               -> <<>>

RECURSIVE Flatten(_)
Flatten(seqs) == IF seqs = <<>> THEN <<>> ELSE Head(seqs) \o Flatten(Tail(seqs))

\* steps[:5]
FirstFive(steps) == SubSeq(steps, 1, Min(5, Len(steps)))

\* the steps with four weaknesses looked at instead of three
generate_next_steps_FourWeaknesses(dimensions, overall_score) ==
    FirstFive(
        (IF FracGeq(overall_score, [num |-> 6, den |-> 10])
         THEN <<"Proceed with MVP development">>
         ELSE <<"Conduct deeper market research">>)
        \o Flatten([i \in 1..Min(4, Len(dimensions)) |->
                       StepFor(get_top_weaknesses(dimensions, 4)[i].dimension)])
        \o (IF FracGeq(overall_score, [num |-> 6, den |-> 10])
            THEN <<"Set up pilot in Tier 1 city">>
            ELSE <<"Consider strategic partnership">>))

\* BaseScorer.generate_next_steps
generate_next_steps(dimensions, overall_score) ==
    FirstFive(
        (IF FracGeq(overall_score, [num |-> 6, den |-> 10])
         THEN <<"Proceed with MVP development">>
         ELSE <<"Conduct deeper market research">>)
        \o Flatten([i \in 1..Min(3, Len(dimensions)) |->
                       StepFor(get_top_weaknesses(dimensions, 3)[i].dimension)])
        \o (IF FracGeq(overall_score, [num |-> 6, den |-> 10])
            THEN <<"Set up pilot in Tier 1 city">>
            ELSE <<"Consider strategic partnership">>))


(***************************************************************************)
(* Scoring: requests and their text.  A description is a set of phrases    *)
(* (an empty set is the empty string), a tag list a sequence of tags.  The *)
(* rules test `keyword in text`: KeywordsIn gives, for each phrase of the  *)
(* alphabet, the rule keywords that are substrings of it.                  *)
(***************************************************************************)
Phrases == {"SaaS", "food delivery", "warehouse", "dating apps", "crypto",
            "marketplace", "B2B software platform", "meal kit"}
RequestTagLists == {<<>>, <<"Gaming">>}

RequestDescriptions == {d \in SUBSET Phrases : Cardinality(d) <= MaxPhrases}

\* ScoringRequest(opportunity_id, startup_name, startup_description, tags,
\* include_recommendations)
ScoringRequests ==
    [opportunity_id          : {"", "opp-1"},
     startup_name            : {"", "Acme"},
     startup_description     : RequestDescriptions,
     tags                    : RequestTagLists,
     include_recommendations : BOOLEAN]

KeywordsIn(phrase) ==
    CASE phrase = "saas"          -> {"saas"}
      [] phrase = "food delivery" -> {"food", "food delivery"}
      [] phrase = "warehouse"     -> {"warehouse"}
      [] phrase = "dating apps"   -> {"app", "dating", "dating apps"}
      [] phrase = "crypto"        -> {"crypto"}
      [] phrase = "marketplace"   -> {"marketplace"}
      [] phrase = "gaming"        -> {"gaming"}
      [] phrase = "b2b software platform" -> {"b2b", "b2b software", "software", "platform"}
      [] phrase = "meal kit"      -> {"meal kit"}
      [] OTHER                    -> {}

\* keyword in text
Contains(text, keyword) == \E phrase \in text : keyword \in KeywordsIn(phrase)

\* any(word in text for word in words)
ContainsAny(text, words) == \E word \in words : Contains(text, word)

\* how many entries of a keyword list occur in the text
Hits(list, text) == Cardinality({i \in DOMAIN list : Contains(text, list[i])})

\* request.startup_description.lower()
Description(request) == {Lower(p) : p \in request.startup_description}

\* " ".join([t.lower() for t in request.tags] + [description])
Combined(request) ==
    {Lower(request.tags[i]) : i \in DOMAIN request.tags} \cup Description(request)

\* score = min(cap, score + delta), once for each of n hits
RECURSIVE RaiseEach(_, _, _, _)
RaiseEach(score, n, delta, cap) ==
    IF n = 0 THEN score ELSE RaiseEach(Min(cap, score + delta), n - 1, delta, cap)

\* score = max(floor, score - delta), once for each of n hits
RECURSIVE LowerEach(_, _, _, _)
LowerEach(score, n, delta, floor) ==
    IF n = 0 THEN score ELSE LowerEach(Max(floor, score - delta), n - 1, delta, floor)

\* INDIA_MARKET_KNOWLEDGE
high_payment_readiness_categories ==
    <<"b2b software", "enterprise software", "saas", "productivity tools",
      "fintech", "financial services", "investment", "insurance">>
low_payment_readiness_categories ==
    <<"b2c consumer", "social media", "entertainment", "gaming",
      "consumer apps", "lifestyle", "dating", "dating apps">>
high_logistics_categories ==
    <<"food delivery", "grocery delivery", "logistics", "supply chain",
      "e-commerce fulfillment", "last mile delivery", "physical products">>
low_logistics_categories ==
    <<"software", "saas", "ai tools", "api services", "digital products",
      "online courses", "content platforms">>
high_regulatory_risk_categories ==
    <<"fintech", "lending", "crypto", "blockchain", "healthcare",
      "education", "gaming", "gambling", "adult", "insurance",
      "financial services", "telecom">>
high_cultural_fit_categories ==
    <<"payments", "shopping", "food", "education", "healthcare",
      "mobility", "communication", "social">>
timing_ripe      == <<"ai", "automation", "saas", "b2b software", "fintech">>
timing_saturated == <<"food delivery", "ride sharing", "edtech", "ecommerce">>
timing_early     == <<"climate tech", "space tech", "synthetic biology">>

cultural_barriers == <<"dating", "pet", "subscription", "premium">>
western_concepts  == <<"gym membership", "meal kit", "home security", "elderly care">>

\* the score as computed, without a clamp
ClampScore_Mutant(score) == score

\* score=min(10, max(1, score))
ClampScore(score) == Min(10, Max(1, score))


(***************************************************************************)
(* Scoring: the rule-based computation of each dimension (the part of each *)
(* _score_<dimension> method after its delegation test).                   *)
(***************************************************************************)
\* if condition: score = min(cap, score + delta)
RaiseIf(condition, score, delta, cap) ==
    IF condition THEN Min(cap, score + delta) ELSE score

\* if condition: score = max(floor, score - delta)
LowerIf(condition, score, delta, floor) ==
    IF condition THEN Max(floor, score - delta) ELSE score

score_cultural_fit(weights, request) ==
    LET combined == Combined(request)
        description == Description(request)
        s1 == RaiseEach(5, Hits(high_cultural_fit_categories, combined), 2, 9)
        s2 == LowerEach(s1, Hits(cultural_barriers, combined), 2, 3)
        s3 == RaiseEach(s2, Hits(western_concepts, description), 1, 7)
    IN  DimensionScore("cultural_fit", ClampScore(s3), weights["cultural_fit"], 75)

score_logistics(weights, request) ==
    LET combined == Combined(request)
        s1 == LowerEach(5, Hits(high_logistics_categories, combined), 3, 3)
        s2 == RaiseEach(s1, Hits(low_logistics_categories, combined), 2, 9)
        s3 == LowerIf(ContainsAny(combined, {"offline", "physical store", "warehouse"}),
                      s2, 2, 4)
        s4 == LowerIf(Contains(combined, "iot") \/ Contains(combined, "smart home"),
                      s3, 1, 4)
    IN  DimensionScore("logistics", ClampScore(s4), weights["logistics"], 80)

score_payment_readiness(weights, request) ==
    LET combined == Combined(request)
        s1 == IF ContainsAny(combined, {"b2b", "enterprise", "business", "sme"})
              THEN Min(9, 5 + 2)
              ELSE IF ContainsAny(combined, {"b2c", "consumer", "individual"})
              THEN Max(4, 5 - 2) ELSE 5
        s2 == RaiseEach(s1, Hits(high_payment_readiness_categories, combined), 1, 9)
        s3 == LowerEach(s2, Hits(low_payment_readiness_categories, combined), 2, 3)
        s4 == LowerIf(Contains(combined, "freemium") \/ Contains(combined, "free"),
                      s3, 1, 4)
    IN  DimensionScore("payment_readiness", ClampScore(s4),
                       weights["payment_readiness"], 75)

score_timing(weights, request) ==
    LET combined == Combined(request)
        s1 == RaiseEach(5, Hits(timing_ripe, combined), 2, 8)
        s2 == LowerEach(s1, Hits(timing_saturated, combined), 3, 3)
        s3 == LowerEach(s2, Hits(timing_early, combined), 1, 3)
    IN  DimensionScore("timing", ClampScore(s3), weights["timing"], 70)

score_monopoly_potential(weights, request) ==
    LET description == Description(request)
        s1 == RaiseIf(ContainsAny(description, {"marketplace", "network", "platform"}),
                      5, 2, 9)
        s2 == RaiseIf(ContainsAny(description, {"ai", "ml", "algorithm", "data"}),
                      s1, 1, 8)
        s3 == RaiseIf(ContainsAny(description, {"workflow", "integration", "embedded"}),
                      s2, 1, 8)
        s4 == LowerIf(ContainsAny(description, {"generic", "simple", "basic tool"}),
                      s3, 2, 4)
    IN  DimensionScore("monopoly_potential", ClampScore(s4),
                       weights["monopoly_potential"], 70)

score_regulatory_risk(weights, request) ==
    LET combined == Combined(request)
        s1 == LowerEach(5, Hits(high_regulatory_risk_categories, combined), 3, 2)
        s2 == RaiseIf(ContainsAny(combined, {"saas", "software", "tool", "productivity"}),
                      s1, 2, 8)
        s3 == LowerIf(ContainsAny(combined, {"data", "user data", "personal"}),
                      s2, 1, 4)
    IN  DimensionScore("regulatory_risk", ClampScore(s3),
                       weights["regulatory_risk"], 75)

score_execution_feasibility(weights, request) ==
    LET description == Description(request)
        s1 == IF ContainsAny(description, {"blockchain", "crypto", "quantum"})
              THEN Max(4, 6 - 2)
              ELSE IF ContainsAny(description, {"simple", "basic", "straightforward"})
              THEN Min(9, 6 + 1) ELSE 6
        s2 == LowerIf(ContainsAny(description, {"hardware", "physical", "manufacturing"}),
                      s1, 2, 4)
        s3 == RaiseIf(ContainsAny(description, {"ai", "ml", "software", "mobile", "app"}),
                      s2, 1, 9)
        s4 == LowerIf(ContainsAny(description, {"design", "ux", "creative"}),
                      s3, 1, 5)
    IN  DimensionScore("execution_feasibility", ClampScore(s4),
                       weights["execution_feasibility"], 75)

\* the rule-based computation of a dimension
rule_based_score(weights, request, dimension) ==
    CASE dimension = "cultural_fit"       -> score_cultural_fit(weights, request)
      [] dimension = "logistics"          -> score_logistics(weights, request)
      [] dimension = "payment_readiness"  -> score_payment_readiness(weights, request)
      [] dimension = "timing"             -> score_timing(weights, request)
      [] dimension = "monopoly_potential" -> score_monopoly_potential(weights, request)
      [] dimension = "regulatory_risk"    -> score_regulatory_risk(weights, request)
      [] OTHER -> score_execution_feasibility(weights, request)


(***************************************************************************)
(* Scoring: the delegated path (_llm_score_dimension), the fallback and    *)
(* score().  A reply of the reasoning provider is a failure or a content,  *)
(* a content being a sequence of words and digit runs.                     *)
(***************************************************************************)
\* the order in which score() computes the dimensions
ScoreOrder_Mutant ==
    <<"cultural_fit", "logistics", "payment_readiness", "timing",
      "monopoly_potential", "regulatory_risk">>

ScoreOrder ==
    <<"cultural_fit", "logistics", "payment_readiness", "timing",
      "monopoly_potential", "regulatory_risk", "execution_feasibility">>

\* the weights SevenDimensionScorer.__init__ gives every scorer
SevenDimensionWeights ==
    [d \in ScoringDimension |-> IF d = "monopoly_potential" THEN 100 ELSE 150]

\* the attributes of class ScoringPrompt
ScoringPromptAttributes ==
    {"system_prompt", "cultural_fit_prompt", "logistics_prompt", "payment_prompt",
     "timing_prompt", "monopoly_prompt", "regulatory_prompt", "execution_prompt"}

\* getattr(ScoringPrompt, f"{dimension}_prompt", None) is not None
HasPromptTemplate(dimension) == (dimension \o "_prompt") \in ScoringPromptAttributes

\* a run of 300 characters without a digit, and the decimal digits of n
Word     == [digits |-> FALSE, value |-> 0, chars |-> 300]
Digits(n) == [digits |-> TRUE, value |-> n, chars |-> IF n >= 10 THEN 2 ELSE 1]

ChatContents == {<<Word>>, <<Word, Digits(7), Digits(10)>>, <<Digits(12)>>, <<Digits(0)>>,
                 <<Word, Word, Digits(3)>>}
ChatFailure  == [kind |-> "error", content |-> <<>>]
NoChatReply  == [kind |-> "unused", content |-> <<>>]
ChatReplies  == {ChatFailure} \cup {[kind |-> "content", content |-> c] : c \in ChatContents}

\* re.search taking the last run of digits instead of the first
ParseScore_Mutant(content) ==
    IF \E i \in DOMAIN content : content[i].digits
    THEN LET last == CHOOSE i \in DOMAIN content :
                        /\ content[i].digits
                        /\ \A j \in (i + 1)..Len(content) : ~content[j].digits
         IN  content[last].value
    ELSE 5

\* re.search(r'(\d+)', content): int(group(1)) if there is a match, else 5
ParseScore(content) ==
    IF \E i \in DOMAIN content : content[i].digits
    THEN LET first == CHOOSE i \in DOMAIN content :
                         /\ content[i].digits
                         /\ \A j \in 1..(i - 1) : ~content[j].digits
         IN  content[first].value
    ELSE 5

\* reasoning=content[:500]
ReasoningLimit == 500

\* content[:limit]: the runs that fit, and the part of the next run that fits
RECURSIVE Truncate(_, _)
Truncate(content, limit) ==
    IF content = <<>> \/ limit = 0 THEN <<>>
    ELSE IF Head(content).chars <= limit
    THEN <<Head(content)>> \o Truncate(Tail(content), limit - Head(content).chars)
    ELSE <<[Head(content) EXCEPT !.chars = limit]>>

\* DimensionScore(..., reasoning=content[:500], ...)
WithReasoning(dim, content) ==
    [dim EXCEPT !.reasoning = Truncate(content, ReasoningLimit)]

\* what a _score_<dimension> call gives: a DimensionScore or a raised error,
\* and the provider calls it made
Returned(dim, calls) == [raised |-> FALSE, error |-> "", dim |-> dim, calls |-> calls]
Raised(dimension, error) ==
    [raised |-> TRUE, error |-> error,
     dim |-> DimensionScore(dimension, 0, 0, 0), calls |-> 0]

\* the test every _score_<dimension> method starts with
Delegates(sc) == sc.use_llm /\ sc.has_client

\* the outcome of a step that came after a call of the provider
AfterProviderCall(outcome) == [outcome EXCEPT !.calls = outcome.calls + 1]

\* the default DimensionScore of _fallback_score, for every dimension
fallback_score_Mutant(sc, request, dimension) ==
    Returned(DimensionScore(dimension, 5, Get(sc.weights, dimension, 150), 50), 0)

\* SevenDimensionScorer._fallback_score: the dimension's method, run with
\* self.use_llm = False (restored afterwards); were the method to delegate
\* again, the provider would be called once more
fallback_score(sc, request, dimension) ==
    IF Delegates([sc EXCEPT !.use_llm = FALSE])
    THEN AfterProviderCall(Raised(dimension, "re-entrant delegation"))
    ELSE Returned(rule_based_score(sc.weights, request, dimension), 0)

\* SevenDimensionScorer._llm_score_dimension
llm_score_dimension(sc, request, dimension, reply) ==
    IF ~sc.has_client THEN Raised(dimension, "OpenAI client not available")
    ELSE IF ~HasPromptTemplate(dimension) THEN Raised(dimension, "Unknown dimension")
    ELSE IF reply.kind = "content"
    THEN Returned(WithReasoning(
                      DimensionScore(dimension, ClampScore(ParseScore(reply.content)),
                                     Get(sc.weights, dimension, 150), 85),
                      reply.content), 1)
    ELSE AfterProviderCall(fallback_score(sc, request, dimension))

\* SevenDimensionScorer._score_<dimension>
score_dimension(sc, request, dimension, reply) ==
    IF Delegates(sc)
    THEN llm_score_dimension(sc, request, dimension, reply)
    ELSE Returned(rule_based_score(sc.weights, request, dimension), 0)

\* BaseScorer.validate_request
validate_request(request) ==
    IF request.opportunity_id = "" THEN [is_valid |-> FALSE, error |-> "Missing opportunity_id"]
    ELSE IF request.startup_name = "" THEN [is_valid |-> FALSE, error |-> "Missing startup_name"]
    ELSE IF request.startup_description = {}
    THEN [is_valid |-> FALSE, error |-> "Missing startup_description"]
    ELSE [is_valid |-> TRUE, error |-> ""]

\* ScoringResponse(opportunity_id=..., errors=[error], method=...)
ErrorResponse(request, method, errors) ==
    [opportunity_id |-> request.opportunity_id, overall_score |-> ZeroScore,
     dimensions |-> <<>>, recommendation |-> "", next_steps |-> <<>>,
     opportunity_level |-> "unknown", method |-> method, errors |-> errors]

\* the state of the try block of score() after one more dimension
AfterDimension(acc, dimension, out) ==
    [raised     |-> out.raised,
     error      |-> out.error,
     dimensions |-> IF out.raised THEN acc.dimensions
                    ELSE Append(acc.dimensions, out.dim),
     calls      |-> acc.calls \o [i \in 1..out.calls |-> dimension]]

\* the try block of score(), dimension after dimension; it stops at the
\* first dimension that raises
RECURSIVE ScoreDimensions(_, _, _, _, _)
ScoreDimensions(sc, request, replies, order, acc) ==
    IF order = <<>> \/ acc.raised THEN acc
    ELSE ScoreDimensions(sc, request, replies, Tail(order),
             AfterDimension(acc, Head(order),
                 score_dimension(sc, request, Head(order),
                                 Get(replies, Head(order), NoChatReply))))

\* BaseScorer._record_stat
record_stat(sc, error) ==
    [sc EXCEPT !.total_scored = sc.total_scored + 1,
               !.errors = sc.errors + (IF error THEN 1 ELSE 0)]

\* the response score() creates from the dimensions and the overall score
create_response(request, method, dimensions, overall_score, level) ==
    [opportunity_id    |-> request.opportunity_id,
     overall_score     |-> overall_score,
     dimensions        |-> dimensions,
     recommendation    |-> IF request.include_recommendations
                           THEN generate_recommendation(level) ELSE "",
     next_steps        |-> IF request.include_recommendations
                           THEN generate_next_steps(dimensions, overall_score)
                           ELSE <<>>,
     opportunity_level |-> level,
     method            |-> method,
     errors            |-> <<>>]

\* score() once the seven dimensions are there: aggregation, level, texts
ScoredResponse(request, sc, dimensions, overall_score) ==
    create_response(request, sc.method, dimensions, overall_score,
                    determine_opportunity_level(overall_score))

\* score() after its try block ran: the except branch or the response
AfterDimensions(sc, request, run) ==
    IF run.raised
    THEN [response |-> ErrorResponse(request, sc.method, <<run.error>>),
          sc |-> record_stat(sc, TRUE),
          computed |-> run.dimensions, calls |-> run.calls]
    ELSE [response |-> ScoredResponse(request, sc, run.dimensions,
                           calculate_overall_score(run.dimensions, sc.weights)),
          sc |-> record_stat(sc, FALSE),
          computed |-> run.dimensions, calls |-> run.calls]

\* score() when validation fails
Invalid(sc, request, error) ==
    [response |-> ErrorResponse(request, sc.method, <<error>>),
     sc |-> sc, computed |-> <<>>, calls |-> <<>>]

\* SevenDimensionScorer.score
score(sc, request, replies) ==
    IF ~validate_request(request).is_valid
    THEN Invalid(sc, request, validate_request(request).error)
    ELSE AfterDimensions(sc, request,
             ScoreDimensions(sc, request, replies, ScoreOrder,
                 [raised |-> FALSE, error |-> "", dimensions |-> <<>>, calls |-> <<>>]))


(***************************************************************************)
(* The state machines.  The specifications share the variables: Spec (the  *)
(* similarity engine and compare), MatchSpec (the searches over the        *)
(* candidate set), LoadSpec (the loads of the candidate set), ScorerSpec   *)
(* (the scorer), AggSpec and CatSpec (calculate_overall_score and          *)
(* calculate_category_match as functions); each leaves the other parts in  *)
(* the idle values below.                                                  *)
(***************************************************************************)
EmptyCompany == [desc |-> <<>>, tags |-> <<>>]
NoSimCall == [called |-> FALSE, source |-> EmptyCompany, target |-> EmptyCompany,
              reply1 |-> NoReply, reply2 |-> NoReply]

EmptyRequest == [opportunity_id |-> "", startup_name |-> "",
                 startup_description |-> {}, tags |-> <<>>,
                 include_recommendations |-> FALSE]
NoScorer ==
    [status |-> "none", method |-> "", use_llm |-> FALSE, has_client |-> FALSE,
     weights |-> EmptyMapping, total_scored |-> 0, errors |-> 0]
RejectedScorer == [NoScorer EXCEPT !.status = "rejected"]
NoScoreCall == [called |-> FALSE, request |-> EmptyRequest, replies |-> EmptyMapping]
NoScoreResult ==
    [response |-> ErrorResponse(EmptyRequest, "", <<>>), computed |-> <<>>,
     calls |-> <<>>]
NoAggIn  == [called |-> FALSE, dimensions |-> <<>>, weights |-> EmptyMapping]
NoAggOut == [returned |-> FALSE, overall_score |-> ZeroScore]

EngineIdle ==
    /\ engine = [use_embeddings |-> FALSE, has_generator |-> FALSE,
                 weights |-> DefaultWeights]
    /\ vectorizer = NoVectorizer
    /\ simCall = NoSimCall
    /\ simResult = NoMatch
ScorerIdle ==
    /\ scorer = NoScorer
    /\ scoreCall = NoScoreCall
    /\ scoreResult = NoScoreResult
AggIdle ==
    /\ aggIn = NoAggIn
    /\ aggOut = NoAggOut

NoMatchCall ==
    [kind |-> "none", source |-> EmptyCompany, top_n |-> 0, threshold |-> 0,
     provider |-> "down", rebuild_embeddings |-> FALSE, reply |-> "failure"]
NoMatchResult ==
    [returned |-> FALSE, raised |-> FALSE, matches |-> <<>>, scored |-> <<>>,
     result |-> NoSimilarityResult]
NoCatIn  == [called |-> FALSE, source_categories |-> <<>>, target_categories |-> <<>>]
NoCatOut == [returned |-> FALSE, match |-> 0, swapped |-> 0]

MatchIdle ==
    /\ indian_startups = <<>>
    /\ startup_embeddings = NoEmbeddings
    /\ matchCall = NoMatchCall
    /\ matchResult = NoMatchResult
CatIdle ==
    /\ catIn = NoCatIn
    /\ catOut = NoCatOut

\* generate_batch_async is not running
NoBatch ==
    [status |-> "idle", texts |-> <<>>, max_concurrent |-> 0,
     pc |-> <<>>, results |-> <<>>, returned |-> [success |-> FALSE, embeddings |-> <<>>, errors |-> <<>>]]
BatchIdle == batch = NoBatch

\* no text was given to the text processor
NoTextCall == [kind |-> "none"]
TextIdle == textCall = NoTextCall

\* infer_category was not called
NoInferCall == [called |-> FALSE, text |-> {}, top_n |-> 0, result |-> <<>>]
InferIdle == inferCall = NoInferCall

\* a value a cache holds or a call returns: None, or a value that is not None
NoneValue == [none |-> TRUE, v |-> 0]
Value(v)  == [none |-> FALSE, v |-> v]

\* the ttl argument: None, or a number of seconds
NoTtl  == [given |-> FALSE, seconds |-> 0]
Ttl(n) == [given |-> TRUE, seconds |-> n]

\* a mapping without keys, for _cache
NoEntries == [k \in {} |-> [value |-> NoneValue, expiry |-> 0]]

\* SimpleCache.__init__
SimpleCache(default_ttl) ==
    [entries |-> NoEntries, default_ttl |-> default_ttl, hits |-> 0, misses |-> 0]

CacheKeys == {"k1", "k2"}
NoCacheCall == [op |-> "none", key |-> "", result |-> NoneValue, ran |-> FALSE,
                live |-> FALSE, expected |-> NoneValue]
NeverSet == [kind |-> "never", value |-> NoneValue, at |-> 0, ttl |-> NoTtl,
             by |-> "none"]
CacheIdle ==
    /\ cache = SimpleCache(1)
    /\ now = 0
    /\ cacheCall = NoCacheCall
    /\ cacheHistory = [k \in CacheKeys |-> NeverSet]

\* no score() call on a shared scorer, and no request of a scraper
NoScoreCalls == [configured |-> FALSE, use_llm |-> FALSE, client |-> FALSE,
                 threads |-> <<>>]
ThreadsIdle == scoreCalls = NoScoreCalls
NoFetch == [status |-> "idle", outcomes |-> <<>>, attempts |-> 0, waits |-> <<>>,
            raised |-> "", request_count |-> 0]
FetchIdle == fetch = NoFetch

\* the added parts at rest, but for the one a specification is about
ExtIdle(part) ==
    /\ IF part = "batch" THEN TRUE ELSE BatchIdle
    /\ IF part = "text" THEN TRUE ELSE TextIdle
    /\ IF part = "infer" THEN TRUE ELSE InferIdle
    /\ IF part = "cache" THEN TRUE ELSE CacheIdle
    /\ IF part = "threads" THEN TRUE ELSE ThreadsIdle
    /\ IF part = "fetch" THEN TRUE ELSE FetchIdle

\* the added parts left alone, but for the one an action is about
ExtUnchanged(part) ==
    /\ IF part = "batch" THEN TRUE ELSE UNCHANGED batch
    /\ IF part = "text" THEN TRUE ELSE UNCHANGED textCall
    /\ IF part = "infer" THEN TRUE ELSE UNCHANGED inferCall
    /\ IF part = "cache" THEN TRUE ELSE UNCHANGED cacheVars
    /\ IF part = "threads" THEN TRUE ELSE UNCHANGED scoreCalls
    /\ IF part = "fetch" THEN TRUE ELSE UNCHANGED fetch

\* the engine, the scorer and the functions at rest
CoreIdle ==
    /\ EngineIdle
    /\ ScorerIdle
    /\ AggIdle
    /\ MatchIdle
    /\ CatIdle
    /\ settings = [has_openai_key |-> FALSE, scoring_weights |-> DefaultScoringWeights]

coreVars == <<simVars, scoreVars, aggVars, matchVars, catVars>>

(***************************************************************************)
(* Spec: one SimilarityEngine and the compare() calls it serves.           *)
(***************************************************************************)
\* SimilarityEngine.__init__
Init ==
    /\ \E has_key \in BOOLEAN, use_embeddings \in BOOLEAN, w \in WeightChoices :
         /\ settings = [has_openai_key |-> has_key,
                        scoring_weights |-> DefaultScoringWeights]
         /\ engine = [use_embeddings |-> use_embeddings /\ has_key,
                      has_generator  |-> use_embeddings /\ has_key,
                      weights        |-> w]
    /\ vectorizer = NoVectorizer
    /\ simCall = NoSimCall
    /\ simResult = NoMatch
    /\ ScorerIdle
    /\ AggIdle
    /\ MatchIdle
    /\ CatIdle
    /\ ExtIdle("")

\* the provider replies a compare() call can meet: none in lexical mode
RepliesFor(eng) == IF eng.use_embeddings THEN EmbeddingReplies ELSE {NoReply}

\* what a compare() call leaves: its result with the caller, the vectorizer
\* in the text processor
Answered(out) ==
    /\ simResult' = out.result
    /\ vectorizer' = out.vz

\* one compare() call on an engine whose last result the caller has taken
Compare ==
    /\ ~simCall.called
    /\ \E source \in Companies, target \in Companies,
       reply1 \in RepliesFor(engine), reply2 \in RepliesFor(engine) :
         /\ simCall' = [called |-> TRUE, source |-> source, target |-> target,
                        reply1 |-> reply1, reply2 |-> reply2]
         /\ Answered(compare(engine, vectorizer, source, target, reply1, reply2))
         /\ UNCHANGED <<extVars, engine, scoreVars, aggVars, matchVars, catVars>>

\* the caller takes the SimilarityMatch (or the error); the engine keeps only
\* what compare() left in the text processor
CompareReturn ==
    /\ simCall.called
    /\ simCall' = NoSimCall
    /\ simResult' = NoMatch
    /\ UNCHANGED <<extVars, engine, vectorizer, scoreVars, aggVars, matchVars, catVars>>

Next == Compare \/ CompareReturn

Spec == Init /\ [][Next]_vars

(***************************************************************************)
(* MatchSpec: one SimilarityEngine with a loaded candidate set, and the    *)
(* find_best_match / find_all_matches / detect_gap calls it serves.        *)
(***************************************************************************)
MatchCompanies ==
    {[desc |-> <<"payments">>, tags |-> <<"Food">>],
     [desc |-> <<"food">>,     tags |-> <<>>],
     [desc |-> <<>>,           tags |-> <<"Food">>],
     EmptyCompany}
StartupLists == SeqsUpTo(MatchCompanies, MaxStartups)
TopNs        == (-1)..(MaxStartups + 1)
Thresholds   == {0, 300 * One, 500 * One}

ProvidersFor(eng) == IF eng.use_embeddings THEN ProviderStates ELSE {"down"}
BatchRepliesFor(eng) == IF eng.use_embeddings THEN BatchReplies ELSE {"failure"}

\* SimilarityEngine.__init__ with the default weights, then nothing loaded
Constructed ==
    /\ \E has_key \in BOOLEAN, use_embeddings \in BOOLEAN :
         /\ settings = [has_openai_key |-> has_key,
                        scoring_weights |-> DefaultScoringWeights]
         /\ engine = [use_embeddings |-> use_embeddings /\ has_key,
                      has_generator  |-> use_embeddings /\ has_key,
                      weights        |-> DefaultWeights]
    /\ vectorizer = NoVectorizer
    /\ simCall = NoSimCall
    /\ simResult = NoMatch
    /\ matchCall = NoMatchCall
    /\ matchResult = NoMatchResult
    /\ ScorerIdle
    /\ AggIdle
    /\ CatIdle

\* the engine after its construction and one load_indian_startups(startups)
\* whose embeddings the provider delivered
MatchInit ==
    /\ Constructed
    /\ indian_startups \in StartupLists
    /\ startup_embeddings =
          load_indian_startups(engine, NoEmbeddings, indian_startups, TRUE,
                               "embeddings").startup_embeddings
    /\ ExtIdle("")

\* what a search leaves: its result with the caller, the vectorizer in the
\* text processor
Searched(out) ==
    /\ matchResult' = [returned |-> TRUE, raised |-> out.raised,
                       matches |-> out.matches, scored |-> out.scored,
                       result |-> NoSimilarityResult]
    /\ vectorizer' = out.vz

Analysed(out) ==
    /\ matchResult' = [returned |-> TRUE, raised |-> out.raised,
                       matches |-> out.result.all_matches, scored |-> out.scored,
                       result |-> out.result]
    /\ vectorizer' = out.vz

FindBestMatch ==
    /\ matchCall.kind = "none"
    /\ \E source \in MatchCompanies, top_n \in TopNs, provider \in ProvidersFor(engine) :
         /\ matchCall' = [NoMatchCall EXCEPT !.kind = "find_best_match",
                             !.source = source, !.top_n = top_n,
                             !.provider = provider]
         /\ Searched(find_best_match(engine, vectorizer, indian_startups, source,
                                     top_n, provider))
    /\ UNCHANGED <<extVars, engine, simCall, simResult, indian_startups, startup_embeddings,
                   scoreVars, aggVars, catVars>>

FindAllMatches ==
    /\ matchCall.kind = "none"
    /\ \E source \in MatchCompanies, threshold \in Thresholds,
          provider \in ProvidersFor(engine) :
         /\ matchCall' = [NoMatchCall EXCEPT !.kind = "find_all_matches",
                             !.source = source, !.threshold = threshold,
                             !.provider = provider]
         /\ Searched(find_all_matches(engine, vectorizer, indian_startups, source,
                                      threshold, provider))
    /\ UNCHANGED <<extVars, engine, simCall, simResult, indian_startups, startup_embeddings,
                   scoreVars, aggVars, catVars>>

DetectGap ==
    /\ matchCall.kind = "none"
    /\ \E source \in MatchCompanies, provider \in ProvidersFor(engine) :
         /\ matchCall' = [NoMatchCall EXCEPT !.kind = "detect_gap",
                             !.source = source, !.provider = provider]
         /\ Analysed(detect_gap(engine, vectorizer, indian_startups, source, provider))
    /\ UNCHANGED <<extVars, engine, simCall, simResult, indian_startups, startup_embeddings,
                   scoreVars, aggVars, catVars>>

\* the caller takes the result (or the error)
MatchReturn ==
    /\ matchCall.kind # "none"
    /\ matchCall' = NoMatchCall
    /\ matchResult' = NoMatchResult
    /\ UNCHANGED <<extVars, simVars, indian_startups, startup_embeddings,
                   scoreVars, aggVars, catVars>>

MatchNext == FindBestMatch \/ FindAllMatches \/ DetectGap \/ MatchReturn

MatchSpec == MatchInit /\ [][MatchNext]_vars

(***************************************************************************)
(* LoadSpec: one SimilarityEngine and the load_indian_startups calls it    *)
(* serves.                                                                 *)
(***************************************************************************)
LoadInit ==
    /\ Constructed
    /\ indian_startups = <<>>
    /\ startup_embeddings = NoEmbeddings
    /\ ExtIdle("")

\* what a load leaves in the engine
Loaded(out) ==
    /\ indian_startups' = out.indian_startups
    /\ startup_embeddings' = out.startup_embeddings

LoadStartups ==
    /\ \E startups \in StartupLists, rebuild_embeddings \in BOOLEAN,
          reply \in BatchRepliesFor(engine) :
         /\ matchCall' = [NoMatchCall EXCEPT !.kind = "load_indian_startups",
                             !.rebuild_embeddings = rebuild_embeddings,
                             !.reply = reply]
         /\ Loaded(load_indian_startups(engine, startup_embeddings, startups,
                                        rebuild_embeddings, reply))
    /\ UNCHANGED <<extVars, simVars, matchResult, scoreVars, aggVars, catVars>>

LoadNext == LoadStartups

LoadSpec == LoadInit /\ [][LoadNext]_vars

(***************************************************************************)
(* CatSpec: CategoryMatcher.calculate_category_match applied to tag lists  *)
(* of the caller's choice, and to the same lists swapped.                  *)
(***************************************************************************)
CatTagNames == {"Food", "food", "SaaS"}
CatTagLists == SeqsUpTo(CatTagNames, MaxTags)

CatInit ==
    /\ catIn \in [called : {FALSE}, source_categories : CatTagLists,
                  target_categories : CatTagLists]
    /\ catOut = NoCatOut
    /\ EngineIdle
    /\ ScorerIdle
    /\ AggIdle
    /\ MatchIdle
    /\ settings = [has_openai_key |-> FALSE, scoring_weights |-> DefaultScoringWeights]
    /\ ExtIdle("")

CategoryMatch ==
    /\ ~catIn.called
    /\ catIn' = [catIn EXCEPT !.called = TRUE]
    /\ catOut' = [returned |-> TRUE,
                  match   |-> calculate_category_match(catIn.source_categories,
                                                       catIn.target_categories),
                  swapped |-> calculate_category_match(catIn.target_categories,
                                                       catIn.source_categories)]
    /\ UNCHANGED <<extVars, simVars, scoreVars, aggVars, matchVars>>

CatNext == CategoryMatch

CatSpec == CatInit /\ [][CatNext]_vars

(***************************************************************************)
(* ScorerSpec: an environment, the construction of one scorer in it, and   *)
(* the score() calls the scorer serves.                                    *)
(***************************************************************************)
ScorerInit ==
    /\ settings \in [has_openai_key : BOOLEAN, scoring_weights : ScoringWeightChoices]
    /\ ScorerIdle
    /\ EngineIdle
    /\ AggIdle
    /\ MatchIdle
    /\ CatIdle
    /\ ExtIdle("")

\* SevenDimensionScorer.__init__ (BaseScorer.__init__ calls get_settings())
SevenDimensionScorer(env, use_llm) ==
    IF get_settings(env).raised THEN RejectedScorer
    ELSE [status       |-> "ready",
          method       |-> IF use_llm THEN "llm_based" ELSE "rule_based",
          use_llm      |-> use_llm /\ env.has_openai_key,
          has_client   |-> use_llm /\ env.has_openai_key,
          weights      |-> SevenDimensionWeights,
          total_scored |-> 0,
          errors       |-> 0]

ConstructScorer ==
    /\ scorer.status = "none"
    /\ \E use_llm \in BOOLEAN : scorer' = SevenDimensionScorer(settings, use_llm)
    /\ UNCHANGED <<extVars, settings, scoreCall, scoreResult, simVars, aggVars, matchVars, catVars>>

\* the dimensions whose scoring reaches the provider: for a valid request in
\* delegating mode, those score() computes before the first one that has no
\* prompt template
RECURSIVE PromptedPrefix(_)
PromptedPrefix(order) ==
    IF order = <<>> \/ ~HasPromptTemplate(Head(order)) THEN {}
    ELSE {Head(order)} \cup PromptedPrefix(Tail(order))
ProviderDimensions(sc, request) ==
    IF Delegates(sc) /\ validate_request(request).is_valid
    THEN PromptedPrefix(ScoreOrder) ELSE {}

\* what a score() call leaves: its response with the caller, its statistics
\* in the scorer
Served(out) ==
    /\ scoreResult' = [response |-> out.response, computed |-> out.computed,
                       calls |-> out.calls]
    /\ scorer' = out.sc

\* one score() call on a scorer whose last response the caller has taken
Score ==
    /\ scorer.status = "ready"
    /\ ~scoreCall.called
    /\ scorer.total_scored < MaxScored
    /\ \E request \in ScoringRequests :
       \E replies \in [ProviderDimensions(scorer, request) -> ChatReplies] :
         /\ scoreCall' = [called |-> TRUE, request |-> request, replies |-> replies]
         /\ Served(score(scorer, request, replies))
         /\ UNCHANGED <<extVars, settings, simVars, aggVars, matchVars, catVars>>

ScoreReturn ==
    /\ scoreCall.called
    /\ scoreCall' = NoScoreCall
    /\ scoreResult' = NoScoreResult
    /\ UNCHANGED <<extVars, settings, scorer, simVars, aggVars, matchVars, catVars>>

ScorerNext == ConstructScorer \/ Score \/ ScoreReturn

ScorerSpec == ScorerInit /\ [][ScorerNext]_vars

(***************************************************************************)
(* AggSpec: BaseScorer.calculate_overall_score applied to dimensions and   *)
(* weights of the caller's choice.                                         *)
(***************************************************************************)
AggNames   == {"a", "b"}
AggScores  == {2, 5, 10}
AggOwnWeights      == {0, 150, 500}     \* DimensionScore.weight; 0.15 is its default
AggSuppliedWeights == {200, 500}

\* the dimension mappings: a DimensionScore for "a", for "b", for both, for none
AggDimensions ==
    LET one(n) == {<<DimensionScore(n, s, w, 80)>> : s \in AggScores, w \in AggOwnWeights}
    IN  {<<>>} \cup one("a") \cup one("b")
        \cup {x \o y : x \in one("a"), y \in one("b")}

\* the weight mappings: over any subset of the names
AggWeights == UNION {[keys -> AggSuppliedWeights] : keys \in SUBSET AggNames}

AggInit ==
    /\ aggIn \in [called : {FALSE}, dimensions : AggDimensions, weights : AggWeights]
    /\ aggOut = NoAggOut
    /\ EngineIdle
    /\ ScorerIdle
    /\ MatchIdle
    /\ CatIdle
    /\ settings = [has_openai_key |-> FALSE, scoring_weights |-> DefaultScoringWeights]
    /\ ExtIdle("")

\* one call of calculate_overall_score on the arguments
Aggregate ==
    /\ ~aggIn.called
    /\ aggIn' = [aggIn EXCEPT !.called = TRUE]
    /\ aggOut' = [returned |-> TRUE,
                  overall_score |-> calculate_overall_score(aggIn.dimensions,
                                                            aggIn.weights)]
    /\ UNCHANGED <<extVars, simVars, scoreVars, matchVars, catVars>>

AggNext == Aggregate

AggSpec == AggInit /\ [][AggNext]_vars


(***************************************************************************)
(* AsyncSpec: EmbeddingGenerator.generate_batch_async.  One task per text; *)
(* a task waits for the semaphore, holds it while generate_async runs      *)
(* (an empty text returns at once, any other text awaits the provider) and *)
(* releases it when generate_async returned.  gather() collects the        *)
(* results once every task is done.                                        *)
(***************************************************************************)
BatchTexts     == {<<>>, <<"payments">>, <<"food">>}
BatchInputs    == SeqsUpTo(BatchTexts, MaxBatch)
MaxConcurrents == 1..2

\* EmbeddingResult(success=True, embedding=...) / EmbeddingResult(success=False, error=...)
EmbeddingResult(success, text) ==
    [success |-> success, embedding |-> IF success THEN EmbeddingOf(text) ELSE <<>>]
NoResult == [success |-> FALSE, embedding |-> <<>>]

\* the tasks that hold the semaphore
Holding(b) == {i \in DOMAIN b.pc : b.pc[i] \in {"acquired", "requesting"}}

\* asyncio.Semaphore(max_concurrent) that never blocks
SemaphoreFree_Unbounded(b) == TRUE

\* asyncio.Semaphore(max_concurrent): acquire() goes through while the value is positive
SemaphoreFree(b) == Cardinality(Holding(b)) < b.max_concurrent

\* the loop over the gathered results: an embedding for each success, an
\* error entry "Text {idx}: ..." for each EmbeddingResult without success
RECURSIVE Collect(_, _, _)
Collect(results, idx, acc) ==
    IF idx > Len(results) THEN acc
    ELSE Collect(results, idx + 1,
             IF results[idx].success
             THEN [acc EXCEPT !.embeddings = Append(@, results[idx].embedding)]
             ELSE [acc EXCEPT !.errors = Append(@, idx)])

\* BatchEmbeddingResult(success=len(errors) == 0, embeddings=..., errors=...)
BatchEmbeddingResult(collected) ==
    [success |-> collected.errors = <<>>,
     embeddings |-> collected.embeddings, errors |-> collected.errors]

AsyncInit ==
    /\ batch = NoBatch
    /\ CoreIdle
    /\ ExtIdle("batch")

\* generate_batch_async(texts, max_concurrent=...): no task for an empty list
StartBatch ==
    /\ batch.status = "idle"
    /\ \E texts \in BatchInputs, max_concurrent \in MaxConcurrents :
         batch' = IF texts = <<>>
                  THEN [NoBatch EXCEPT !.status = "returned", !.max_concurrent = max_concurrent,
                                       !.returned = [success |-> TRUE, embeddings |-> <<>>,
                                                     errors |-> <<>>]]
                  ELSE [status |-> "running", texts |-> texts,
                        max_concurrent |-> max_concurrent,
                        pc |-> [i \in DOMAIN texts |-> "waiting"],
                        results |-> [i \in DOMAIN texts |-> NoResult],
                        returned |-> NoBatch.returned]
    /\ UNCHANGED coreVars /\ ExtUnchanged("batch")

\* async with semaphore
Acquire(i) ==
    /\ batch.status = "running"
    /\ batch.pc[i] = "waiting"
    /\ SemaphoreFree(batch)
    /\ batch' = [batch EXCEPT !.pc[i] = "acquired"]
    /\ UNCHANGED coreVars /\ ExtUnchanged("batch")

\* generate_async up to its await: an empty text returns the error result
\* and leaves the semaphore, any other text sends its request
Generate(i) ==
    /\ batch.status = "running"
    /\ batch.pc[i] = "acquired"
    /\ batch' = IF batch.texts[i] = <<>>
                THEN [batch EXCEPT !.pc[i] = "done",
                                   !.results[i] = EmbeddingResult(FALSE, batch.texts[i])]
                ELSE [batch EXCEPT !.pc[i] = "requesting"]
    /\ UNCHANGED coreVars /\ ExtUnchanged("batch")

\* the provider answers task i, or the request raises: generate_async
\* returns a result either way, and the task leaves the semaphore
ProviderAnswers(i) ==
    /\ batch.status = "running"
    /\ batch.pc[i] = "requesting"
    /\ \E success \in BOOLEAN :
         batch' = [batch EXCEPT !.pc[i] = "done",
                                !.results[i] = EmbeddingResult(success, batch.texts[i])]
    /\ UNCHANGED coreVars /\ ExtUnchanged("batch")

\* await asyncio.gather(*tasks, return_exceptions=True) and the loop after it
Gather ==
    /\ batch.status = "running"
    /\ \A i \in DOMAIN batch.pc : batch.pc[i] = "done"
    /\ batch' = [batch EXCEPT
                   !.status = "returned",
                   !.returned = BatchEmbeddingResult(
                       Collect(batch.results, 1, [embeddings |-> <<>>, errors |-> <<>>]))]
    /\ UNCHANGED coreVars /\ ExtUnchanged("batch")

\* the caller takes the BatchEmbeddingResult
BatchReturn ==
    /\ batch.status = "returned"
    /\ batch' = NoBatch
    /\ UNCHANGED coreVars /\ ExtUnchanged("batch")

AsyncNext ==
    \/ StartBatch
    \/ \E i \in 1..MaxBatch : i \in DOMAIN batch.pc /\ Acquire(i)
    \/ \E i \in 1..MaxBatch : i \in DOMAIN batch.pc /\ Generate(i)
    \/ \E i \in 1..MaxBatch : i \in DOMAIN batch.pc /\ ProviderAnswers(i)
    \/ Gather
    \/ BatchReturn

AsyncSpec == AsyncInit /\ [][AsyncNext]_vars


(***************************************************************************)
(* TextProcessor on texts of characters.  A text is None or a string, a    *)
(* string being the sequence of its characters; the texts are put together *)
(* from a few pieces (parts of words, a run of seven "-", a run of seven   *)
(* digits, an upper-case letter, a blank, "!", "@", "www.").  clean_text   *)
(* is its six steps, each regular expression as re.sub applies it: from    *)
(* left to right, each match taken out of the text as it was given.        *)
(***************************************************************************)
NullText      == [null |-> TRUE, chars |-> <<>>]
String(chars) == [null |-> FALSE, chars |-> chars]

TextPieces ==
    {<<"h", "t">>, <<"t", "p", "x">>, <<"F">>, <<" ">>, <<"!">>, <<"@">>,
     <<"-", "-", "-", "-", "-", "-", "-">>, <<"1", "1", "1", "1", "1", "1", "1">>,
     <<"w", "w", "w", ".">>}

\* the strings made of up to MaxPieces pieces, and None
TextInputs ==
    {NullText} \cup {String(Flatten(pieces)) : pieces \in SeqsUpTo(TextPieces, MaxPieces)}

\* \s, \w and the class [\d\+\-\(\)] on the characters of the pieces
IsSpace(c)     == c = " "
IsWordChar(c)  == c \in {"h", "t", "p", "x", "w", "f", "F", "1", "_"}
IsPhoneChar(c) == c \in {"1", "+", "-", "(", ")"}

\* str.lower() on a character
LowerChar(c) == IF c = "F" THEN "f" ELSE c

\* the text from position i on starts with the pattern
StartsWith(chars, i, pattern) ==
    /\ i + Len(pattern) - 1 <= Len(chars)
    /\ \A k \in DOMAIN pattern : chars[i + k - 1] = pattern[k]

\* the last position of the run of non-blank characters that holds position i
RunEnd(chars, i) ==
    CHOOSE j \in i..Len(chars) :
        /\ \A k \in i..j : ~IsSpace(chars[k])
        /\ j = Len(chars) \/ IsSpace(chars[j + 1])

\* http\S+|www\.\S+ matches at position i
UrlAt(chars, i) ==
    \E pattern \in {<<"h", "t", "t", "p">>, <<"w", "w", "w", ".">>} :
        /\ StartsWith(chars, i, pattern)
        /\ i + 4 <= Len(chars)
        /\ ~IsSpace(chars[i + 4])

\* re.sub(r'http\S+|www\.\S+', '', text), from position i on
RECURSIVE RemoveUrls(_, _)
RemoveUrls(chars, i) ==
    IF i > Len(chars) THEN <<>>
    ELSE IF UrlAt(chars, i) THEN RemoveUrls(chars, RunEnd(chars, i) + 1)
    ELSE <<chars[i]>> \o RemoveUrls(chars, i + 1)

\* \S+@\S+ matches at position i
EmailAt(chars, i) ==
    /\ ~IsSpace(chars[i])
    /\ \E k \in (i + 1)..(RunEnd(chars, i) - 1) : chars[k] = "@"

\* re.sub(r'\S+@\S+', '', text), from position i on
RECURSIVE RemoveEmails(_, _)
RemoveEmails(chars, i) ==
    IF i > Len(chars) THEN <<>>
    ELSE IF EmailAt(chars, i) THEN RemoveEmails(chars, RunEnd(chars, i) + 1)
    ELSE <<chars[i]>> \o RemoveEmails(chars, i + 1)

\* \b before position i, and \b after position j
BoundaryBefore(chars, i) ==
    IsWordChar(chars[i]) # (i > 1 /\ IsWordChar(chars[i - 1]))
BoundaryAfter(chars, j) ==
    IsWordChar(chars[j]) # (j < Len(chars) /\ IsWordChar(chars[j + 1]))

\* the ends \b[\d\+\-\(\)]{7,}\b can have when it starts at position i
PhoneEnds(chars, i) ==
    {j \in (i + 6)..Len(chars) :
        /\ \A k \in i..j : IsPhoneChar(chars[k])
        /\ BoundaryAfter(chars, j)}

\* the end of the longest match
LongestEnd(ends) == CHOOSE j \in ends : \A k \in ends : k <= j

\* re.sub(r'\b[\d\+\-\(\)]{7,}\b', '', text), from position i on: the
\* longest match at the first position that has one
RECURSIVE RemovePhones(_, _)
RemovePhones(chars, i) ==
    IF i > Len(chars) THEN <<>>
    ELSE IF BoundaryBefore(chars, i) /\ PhoneEnds(chars, i) # {}
    THEN RemovePhones(chars, LongestEnd(PhoneEnds(chars, i)) + 1)
    ELSE <<chars[i]>> \o RemovePhones(chars, i + 1)

\* re.sub(r'[^\w\s]', ' ', text)
ReplaceSpecial(chars) ==
    [i \in DOMAIN chars |->
        IF IsWordChar(chars[i]) \/ IsSpace(chars[i]) THEN chars[i] ELSE " "]

\* text.split(): the runs of non-blank characters, from position i on
RECURSIVE Split(_, _)
Split(chars, i) ==
    IF i > Len(chars) THEN <<>>
    ELSE IF IsSpace(chars[i]) THEN Split(chars, i + 1)
    ELSE <<SubSeq(chars, i, RunEnd(chars, i))>> \o Split(chars, RunEnd(chars, i) + 1)

\* ' '.join(words)
RECURSIVE JoinWords(_)
JoinWords(words) ==
    IF words = <<>> THEN <<>>
    ELSE IF Len(words) = 1 THEN words[1]
    ELSE words[1] \o <<" ">> \o JoinWords(Tail(words))

\* the steps of clean_text after the test of its argument
CleanSteps(chars) ==
    JoinWords(Split(
        ReplaceSpecial(
            RemovePhones(
                RemoveEmails(
                    RemoveUrls([i \in DOMAIN chars |-> LowerChar(chars[i])], 1), 1), 1)), 1))

\* TextProcessor.clean_text on a text of characters: "" for None and for ""
CleanText(text) ==
    IF text.null \/ text.chars = <<>> THEN <<>> ELSE CleanSteps(text.chars)


\* TextProcessor(min_word_length=2, max_word_length=50)
MinWordLength == 2
MaxWordLength == 50

\* TextProcessor.tokenize on a cleaned text
TokenizeText(cleaned) ==
    IF cleaned = <<>> THEN <<>>
    ELSE SelectSeq(Split(cleaned, 1),
                   LAMBDA t : MinWordLength <= Len(t) /\ Len(t) <= MaxWordLength)

\* TextProcessor.stop_words: no word the pieces can spell is one of them
StopTokens == {}

\* TextProcessor.remove_stopwords on tokens of characters
RemoveStopTokens(tokens) == SelectSeq(tokens, LAMBDA t : t \notin StopTokens)

\* TextProcessor.extract_ngrams: [] when there are fewer than n tokens
extract_ngrams(tokens, n) ==
    IF Len(tokens) < n THEN <<>>
    ELSE [i \in 1..(Len(tokens) - n + 1) |-> SubSeq(tokens, i, i + n - 1)]

\* Counter(tokens): the distinct tokens in the order of their first
\* occurrence, from position i on
RECURSIVE FirstSeen(_, _)
FirstSeen(tokens, i) ==
    IF i > Len(tokens) THEN <<>>
    ELSE (IF \E j \in 1..(i - 1) : tokens[j] = tokens[i] THEN <<>> ELSE <<tokens[i]>>)
         \o FirstSeen(tokens, i + 1)

\* TextProcessor.extract_keywords on tokens of characters
KeywordsOfTokens(tokens) ==
    IF tokens = <<>> THEN <<>>
    ELSE MostCommon(tokens, FirstSeen(tokens, 1), KeywordTopN)

\* PorterStemmer.stem: the words the pieces spell have no suffix it strips
StemToken(t) == t

\* TextProcessor.extract_noun_phrases: spaCy's nlp(text) and re.findall(pattern,
\* text) both raise TypeError for None; the phrases of a string are left out
extract_noun_phrases(text) == [raised |-> text.null]

\* ProcessedText(...), or the error process() raised
ProcessedText(cleaned, tokens, keywords) ==
    [raised |-> FALSE, cleaned |-> cleaned, tokens |-> tokens, keywords |-> keywords,
     bigrams |-> extract_ngrams(tokens, 2), trigrams |-> extract_ngrams(tokens, 3),
     word_count |-> Len(tokens), vocabulary_size |-> Cardinality(Range(tokens))]
ProcessRaised ==
    [raised |-> TRUE, cleaned |-> <<>>, tokens |-> <<>>, keywords |-> <<>>,
     bigrams |-> <<>>, trigrams |-> <<>>, word_count |-> 0, vocabulary_size |-> 0]

\* process() from the tokens on
Processed(text, cleaned, tokens) ==
    IF extract_noun_phrases(text).raised THEN ProcessRaised
    ELSE ProcessedText(cleaned, tokens,
                       KeywordsOfTokens([i \in DOMAIN tokens |-> StemToken(tokens[i])]))

\* TextProcessor.process (use_stemming, use_stopwords and use_bigrams as
\* the constructor sets them by default)
process(text) ==
    Processed(text, CleanText(text),
              RemoveStopTokens(TokenizeText(CleanText(text))))

(***************************************************************************)
(* TextSpec: clean_text and process applied to a text of the caller's      *)
(* choice; clean_text is applied once more to what it gave.                *)
(***************************************************************************)
TextInit ==
    /\ textCall = NoTextCall
    /\ CoreIdle
    /\ ExtIdle("text")

\* the cleaned text given to clean_text again
Recleaned(cleaned) == CleanText(String(cleaned))

CleanTextCall ==
    /\ textCall.kind = "none"
    /\ \E text \in TextInputs :
         textCall' = [kind |-> "clean_text", text |-> text,
                      cleaned |-> CleanText(text),
                      recleaned |-> Recleaned(CleanText(text))]
    /\ UNCHANGED coreVars /\ ExtUnchanged("text")

ProcessCall ==
    /\ textCall.kind = "none"
    /\ \E text \in TextInputs :
         textCall' = [kind |-> "process", text |-> text, out |-> process(text)]
    /\ UNCHANGED coreVars /\ ExtUnchanged("text")

TextReturn ==
    /\ textCall.kind # "none"
    /\ textCall' = NoTextCall
    /\ UNCHANGED coreVars /\ ExtUnchanged("text")

TextNext == CleanTextCall \/ ProcessCall \/ TextReturn

TextSpec == TextInit /\ [][TextNext]_vars


(***************************************************************************)
(* CategoryMatcher.infer_category.  A text is a set of phrases; a keyword  *)
(* is in the text when it is a substring of one of the phrases.  A score   *)
(* is in tenths, a confidence a fraction.                                  *)
(***************************************************************************)
\* CategoryMatcher.CATEGORY_KEYWORDS, in the order of the dict
CATEGORY_KEYWORDS ==
    <<[category |-> "fintech",
       keywords |-> <<"payment", "banking", "finance", "financial", "lending", "credit", "invest", "insurance", "wealth", "trading", "crypto", "blockchain", "neobank", "pos", "upi", "wallet", "financial", "fintech">>],
      [category |-> "e-commerce",
       keywords |-> <<"e-commerce", "ecommerce", "shop", "retail", "marketplace", "selling", "purchase", "cart", "checkout", "online store", "d2c", "direct to consumer", "b2c">>],
      [category |-> "saas",
       keywords |-> <<"saas", "software", "subscription", "b2b", "enterprise", "workflow", "automation", "productivity", "tool", "api", "cloud", "platform as a service">>],
      [category |-> "healthtech",
       keywords |-> <<"health", "medical", "healthcare", "patient", "doctor", "hospital", "pharma", "wellness", "fitness", "telehealth", "telemedicine", "clinical", "diagnosis">>],
      [category |-> "edtech",
       keywords |-> <<"education", "learning", "course", "student", "school", "training", "tutoring", "skill", "academic", "university", "elearning", "online learning", "k12">>],
      [category |-> "food delivery",
       keywords |-> <<"food", "delivery", "restaurant", "eat", "meal", "grocery", "kitchen", "catering", "takeout", "dark kitchen", "quick commerce", "hyperlocal">>],
      [category |-> "logistics",
       keywords |-> <<"logistics", "shipping", "transport", "freight", "supply chain", "warehouse", "inventory", "fulfillment", "last mile", "delivery">>],
      [category |-> "b2b",
       keywords |-> <<"b2b", "business to business", "sme", "smb", "enterprise", "procurement", "supply chain", "wholesale">>],
      [category |-> "ai/ml",
       keywords |-> <<"artificial intelligence", "machine learning", "ai", "ml", "neural", "deep learning", "model", "algorithm", "nlp", "computer vision", "generative", "llm", "gpt">>],
      [category |-> "consumer",
       keywords |-> <<"consumer", "app", "mobile", "personal", "lifestyle", "daily", "end user", "individual", "retail">>],
      [category |-> "mobility",
       keywords |-> <<"transport", "taxi", "ride", "mobility", "vehicle", "travel", "transportation", "commute", "bike", "scooter">>],
      [category |-> "hr tech",
       keywords |-> <<"hr", "human resource", "recruiting", "hiring", "talent", "payroll", "employee", "workforce", "performance", "hris">>],
      [category |-> "real estate",
       keywords |-> <<"real estate", "property", "housing", "rent", "lease", "apartment", "commercial", "mortgage", "proptech">>],
      [category |-> "insurtech",
       keywords |-> <<"insurance", "policy", "coverage", "claim", "underwriting", "insurtech", "risk">>],
      [category |-> "agritech",
       keywords |-> <<"agriculture", "farming", "crop", "farmer", "agritech", "food supply", "agri", "farm">>],
      [category |-> "climate tech",
       keywords |-> <<"climate", "sustainability", "carbon", "renewable", "energy", "environment", "green", "clean tech", "esg">>],
      [category |-> "deeptech",
       keywords |-> <<"deeptech", "semiconductor", "chip", "hardware", "robotics", "quantum", "biotech", "advanced manufacturing", "space">>]>>

InferPhrases == {"crypto", "food delivery", "AI tutoring", "gadgets", "Retail"}
InferTexts   == {t \in SUBSET InferPhrases : Cardinality(t) <= MaxInferPhrases}
InferTopNs   == 0..4

\* the keywords of CATEGORY_KEYWORDS that are substrings of phrase.lower()
CategoryKeywordsIn(phrase) ==
    CASE phrase = "crypto"        -> {"crypto"}
      [] phrase = "food delivery" -> {"food", "delivery"}
      [] phrase = "AI tutoring"   -> {"ai", "tutoring"}
      [] phrase = "Retail"        -> {"ai", "retail"}
      [] OTHER                    -> {}

\* keyword in text_lower
InText(keyword, text) == \E phrase \in text : keyword \in CategoryKeywordsIn(phrase)

\* score += len(keyword) * 0.1 for each keyword of the list that is in the text
CategoryScore(keywords, text) ==
    SumSet({i \in DOMAIN keywords : InText(keywords[i], text)},
           [i \in DOMAIN keywords |-> Len(keywords[i])])

\* scores.items(): [category, score] in the order of the dict
CategoryScores(text) ==
    [i \in DOMAIN CATEGORY_KEYWORDS |->
        [category |-> CATEGORY_KEYWORDS[i].category,
         score    |-> CategoryScore(CATEGORY_KEYWORDS[i].keywords, text)]]

\* sorted(items, key=score, reverse=True): stable, by repeated selection of
\* the first entry with the highest score
RECURSIVE SortedScores(_)
SortedScores(items) ==
    IF items = <<>> THEN <<>>
    ELSE LET first == CHOOSE i \in DOMAIN items :
                         /\ \A j \in DOMAIN items : items[j].score <= items[i].score
                         /\ \A j \in 1..(i - 1) : items[j].score < items[i].score
         IN  <<items[first]>>
             \o SortedScores(SubSeq(items, 1, first - 1)
                             \o SubSeq(items, first + 1, Len(items)))

\* (cat, score / max_score) for the first top_n entries
Normalized(sorted_scores, top_n) ==
    [i \in DOMAIN Prefix(sorted_scores, top_n) |->
        [category |-> sorted_scores[i].category,
         num |-> sorted_scores[i].score, den |-> sorted_scores[1].score]]

\* infer_category from the sorted scores on
Inferred(sorted_scores, top_n) ==
    IF sorted_scores = <<>> \/ sorted_scores[1].score = 0
    THEN <<[category |-> "consumer", num |-> 1, den |-> 2]>>
    ELSE Normalized(sorted_scores, top_n)

\* CategoryMatcher.infer_category
infer_category(text, top_n) == Inferred(SortedScores(CategoryScores(text)), top_n)

(***************************************************************************)
(* InferSpec: infer_category applied to a text and a top_n of the caller's *)
(* choice.                                                                 *)
(***************************************************************************)
InferInit ==
    /\ inferCall = NoInferCall
    /\ CoreIdle
    /\ ExtIdle("infer")

InferCategory ==
    /\ ~inferCall.called
    /\ \E text \in InferTexts, top_n \in InferTopNs :
         inferCall' = [called |-> TRUE, text |-> text, top_n |-> top_n,
                       result |-> infer_category(text, top_n)]
    /\ UNCHANGED coreVars /\ ExtUnchanged("infer")

InferReturn ==
    /\ inferCall.called
    /\ inferCall' = NoInferCall
    /\ UNCHANGED coreVars /\ ExtUnchanged("infer")

InferNext == InferCategory \/ InferReturn

InferSpec == InferInit /\ [][InferNext]_vars


(***************************************************************************)
(* SimpleCache and the @cached decorator.  An entry of _cache is a value   *)
(* and the time it expires at; the clock counts seconds.                   *)
(***************************************************************************)
\* the mapping without a key, and with a key bound to an entry
Without(entries, key) == [k \in DOMAIN entries \ {key} |-> entries[k]]
With(entries, key, entry) ==
    [k \in DOMAIN entries \cup {key} |-> IF k = key THEN entry ELSE entries[k]]

\* SimpleCache.get: [cache, value]
get(c, key, time) ==
    IF key \in DOMAIN c.entries /\ time < c.entries[key].expiry
    THEN [cache |-> [c EXCEPT !.hits = @ + 1], value |-> c.entries[key].value]
    ELSE [cache |-> [c EXCEPT !.entries = Without(@, key), !.misses = @ + 1],
          value |-> NoneValue]

\* ttl or self.default_ttl, with the ttl taken as it was given
TtlOrDefault_AsGiven(c, ttl) ==
    IF ttl.given THEN ttl.seconds ELSE c.default_ttl

\* ttl or self.default_ttl: the default also for a ttl of 0
TtlOrDefault(c, ttl) ==
    IF ttl.given /\ ttl.seconds # 0 THEN ttl.seconds ELSE c.default_ttl

\* SimpleCache.set
set(c, key, value, ttl, time) ==
    [c EXCEPT !.entries = With(@, key, [value |-> value,
                                        expiry |-> time + TtlOrDefault(c, ttl)])]

\* SimpleCache.delete: [cache, deleted]
delete(c, key) ==
    [cache |-> [c EXCEPT !.entries = Without(@, key)],
     deleted |-> key \in DOMAIN c.entries]

\* SimpleCache.clear
clear(c) == [c EXCEPT !.entries = NoEntries]

\* SimpleCache.cleanup_expired: [cache, removed]
cleanup_expired(c, time) ==
    LET expired_keys == {k \in DOMAIN c.entries : c.entries[k].expiry < time}
    IN  [cache |-> [c EXCEPT !.entries = [k \in DOMAIN c.entries \ expired_keys |->
                                             c.entries[k]]],
         removed |-> Cardinality(expired_keys)]

\* the wrapper after its lookup: the cached value when it is not None,
\* else the function is run and its result is set
AfterLookup(looked, key, ttl, time, result) ==
    IF ~looked.value.none
    THEN [cache |-> looked.cache, value |-> looked.value, ran |-> FALSE]
    ELSE [cache |-> set(looked.cache, key, result, ttl, time),
          value |-> result, ran |-> TRUE]

\* a call of a function wrapped with @cached(ttl): result is what the
\* function returns if the wrapper runs it
cached(c, key, ttl, time, result) ==
    AfterLookup(get(c, key, time), key, ttl, time, result)


(***************************************************************************)
(* CacheSpec: one SimpleCache used through set, get, delete, clear,        *)
(* cleanup_expired and a function wrapped with @cached, while the clock    *)
(* advances.  cacheHistory remembers, for every key, the last set or       *)
(* removal the callers made.                                               *)
(***************************************************************************)
SetValues == {Value(1), Value(2)}
FunctionResults == {Value(1), NoneValue}
SetTtls == {NoTtl, Ttl(0), Ttl(2)}
\* the ttl each wrapped function was decorated with
DecoratorTtl(key) == IF key = "k1" THEN NoTtl ELSE Ttl(2)

Removed == [NeverSet EXCEPT !.kind = "removed"]
WasSet(value, time, ttl, by) ==
    [kind |-> "set", value |-> value, at |-> time, ttl |-> ttl, by |-> by]

\* the entry the callers last set has not outlived the ttl they gave it
Unexpired(c, h, time) ==
    h.kind = "set" /\ time < h.at + TtlOrDefault_AsGiven(c, h.ttl)

CacheCall(op, key, result, ran, live, expected) ==
    [op |-> op, key |-> key, result |-> result, ran |-> ran, live |-> live,
     expected |-> expected]

CacheInit ==
    /\ CacheIdle
    /\ CoreIdle
    /\ ExtIdle("cache")

Set(key, value, ttl) ==
    /\ cache' = set(cache, key, value, ttl, now)
    /\ cacheHistory' = [cacheHistory EXCEPT ![key] = WasSet(value, now, ttl, "set")]
    /\ cacheCall' = CacheCall("set", key, NoneValue, FALSE, FALSE, NoneValue)
    /\ UNCHANGED now
    /\ UNCHANGED coreVars
    /\ ExtUnchanged("cache")

GetReturns(key, got, h) ==
    /\ cache' = got.cache
    /\ cacheCall' = CacheCall("get", key, got.value, FALSE,
                              Unexpired(cache, h, now),
                              IF Unexpired(cache, h, now) THEN h.value ELSE NoneValue)
    /\ UNCHANGED <<now, cacheHistory>>
    /\ UNCHANGED coreVars
    /\ ExtUnchanged("cache")

CacheGet(key) ==
    /\ cache.hits + cache.misses < MaxGets
    /\ GetReturns(key, get(cache, key, now), cacheHistory[key])

Delete(key) ==
    /\ cache' = delete(cache, key).cache
    /\ cacheHistory' = [cacheHistory EXCEPT ![key] = Removed]
    /\ cacheCall' = CacheCall("delete", key, NoneValue, FALSE, FALSE, NoneValue)
    /\ UNCHANGED now
    /\ UNCHANGED coreVars
    /\ ExtUnchanged("cache")

Clear ==
    /\ cache' = clear(cache)
    /\ cacheHistory' = [k \in CacheKeys |-> Removed]
    /\ cacheCall' = CacheCall("clear", "", NoneValue, FALSE, FALSE, NoneValue)
    /\ UNCHANGED now
    /\ UNCHANGED coreVars
    /\ ExtUnchanged("cache")

CleanupExpired ==
    /\ cache' = cleanup_expired(cache, now).cache
    /\ cacheCall' = CacheCall("cleanup_expired", "", NoneValue, FALSE, FALSE, NoneValue)
    /\ UNCHANGED <<now, cacheHistory>>
    /\ UNCHANGED coreVars
    /\ ExtUnchanged("cache")

CachedReturns(key, called, h) ==
    /\ cache' = called.cache
    /\ cacheHistory' = IF called.ran
                       THEN [cacheHistory EXCEPT
                                ![key] = WasSet(called.value, now, DecoratorTtl(key),
                                                "cached")]
                       ELSE cacheHistory
    /\ cacheCall' = CacheCall("cached", key, called.value, called.ran,
                              h.by = "cached" /\ Unexpired(cache, h, now), h.value)
    /\ UNCHANGED now
    /\ UNCHANGED coreVars
    /\ ExtUnchanged("cache")

CachedCall(key, result) ==
    /\ cache.hits + cache.misses < MaxGets
    /\ CachedReturns(key, cached(cache, key, DecoratorTtl(key), now, result),
                     cacheHistory[key])

Tick ==
    /\ now < MaxTime
    /\ now' = now + 1
    /\ cacheCall' = NoCacheCall
    /\ UNCHANGED <<cache, cacheHistory>>
    /\ UNCHANGED coreVars
    /\ ExtUnchanged("cache")

CacheNext ==
    \/ \E key \in CacheKeys, value \in SetValues, ttl \in SetTtls : Set(key, value, ttl)
    \/ \E key \in CacheKeys : CacheGet(key)
    \/ \E key \in CacheKeys : Delete(key)
    \/ Clear
    \/ CleanupExpired
    \/ \E key \in CacheKeys, result \in FunctionResults : CachedCall(key, result)
    \/ Tick

CacheSpec == CacheInit /\ [][CacheNext]_vars


(***************************************************************************)
(* ConcSpec: score() calls running in threads on one scorer instance.      *)
(* self.use_llm is an attribute of the instance, so every call reads and   *)
(* writes the same one; a step of a call is one read or one write of it.   *)
(* A call is at "check" (the test at the head of a _score_<dimension>      *)
(* method), "create" (the provider request of _llm_score_dimension),       *)
(* "save", "disable" and "restore" (the three statements of                *)
(* _fallback_score that touch use_llm), or "done".                         *)
(***************************************************************************)
Threads == {"t1", "t2"}
ConcDimensions == <<"cultural_fit", "logistics">>

NotCalled == [pc |-> "idle", dim |-> 1, saved |-> <<>>, skipped |-> FALSE,
              fell_back |-> FALSE]

\* SevenDimensionScorer.__init__: a client only with use_llm and a key
SharedScorer(use_llm) ==
    [configured |-> use_llm, use_llm |-> use_llm, client |-> use_llm,
     threads |-> [t \in Threads |-> NotCalled]]

\* a _score_<dimension> method has returned to its caller: to the finally
\* clause of the fallback that called it, or to score(), which goes on to
\* the next dimension
MethodReturned(th) ==
    IF th.saved # <<>> THEN [th EXCEPT !.pc = "restore"]
    ELSE IF th.dim < Len(ConcDimensions)
         THEN [th EXCEPT !.pc = "check", !.dim = @ + 1]
         ELSE [th EXCEPT !.pc = "done"]

ConcStep(t, use_llm, th) ==
    /\ scoreCalls' = [scoreCalls EXCEPT !.use_llm = use_llm, !.threads[t] = th]
    /\ UNCHANGED coreVars
    /\ ExtUnchanged("threads")

ConcInit ==
    /\ \E use_llm \in BOOLEAN : scoreCalls = SharedScorer(use_llm)
    /\ CoreIdle
    /\ ExtIdle("threads")

\* score() is called in thread t
ScoreCalled(t) ==
    /\ scoreCalls.threads[t].pc = "idle"
    /\ ConcStep(t, scoreCalls.use_llm, [scoreCalls.threads[t] EXCEPT !.pc = "check"])

\* if self.use_llm and self.client: delegate, else score by the rules.  A
\* call made by score() itself that takes the rules of a scorer configured
\* to delegate has skipped the delegated path.
CheckUseLlm(t) ==
    LET th == scoreCalls.threads[t]
    IN  /\ th.pc = "check"
        /\ ConcStep(t, scoreCalls.use_llm,
                    IF scoreCalls.use_llm /\ scoreCalls.client
                    THEN [th EXCEPT !.pc = "create"]
                    ELSE MethodReturned([th EXCEPT !.skipped =
                                      @ \/ (th.saved = <<>> /\ scoreCalls.configured)]))

\* self.client.chat.completions.create answers or raises
ChatCompletes(t, ok) ==
    LET th == scoreCalls.threads[t]
    IN  /\ th.pc = "create"
        /\ ok \/ Len(th.saved) < MaxNesting
        /\ ConcStep(t, scoreCalls.use_llm,
                    IF ok THEN MethodReturned(th)
                    ELSE [th EXCEPT !.pc = "save", !.fell_back = TRUE])

\* original_use_llm = self.use_llm
SaveUseLlm(t) ==
    LET th == scoreCalls.threads[t]
    IN  /\ th.pc = "save"
        /\ ConcStep(t, scoreCalls.use_llm,
                    [th EXCEPT !.pc = "disable",
                               !.saved = <<scoreCalls.use_llm>> \o @])

\* self.use_llm = False, then the dimension's method is called
DisableUseLlm(t) ==
    LET th == scoreCalls.threads[t]
    IN  /\ th.pc = "disable"
        /\ ConcStep(t, FALSE, [th EXCEPT !.pc = "check"])

\* finally: self.use_llm = original_use_llm
RestoreUseLlm(t) ==
    LET th == scoreCalls.threads[t]
    IN  /\ th.pc = "restore"
        /\ ConcStep(t, Head(th.saved), MethodReturned([th EXCEPT !.saved = Tail(@)]))

ConcNext ==
    \E t \in Threads :
        \/ ScoreCalled(t)
        \/ CheckUseLlm(t)
        \/ \E ok \in BOOLEAN : ChatCompletes(t, ok)
        \/ SaveUseLlm(t)
        \/ DisableUseLlm(t)
        \/ RestoreUseLlm(t)

ConcSpec == ConcInit /\ [][ConcNext]_vars


(***************************************************************************)
(* FetchSpec: BaseScraper._make_request under its @retry decorator.  The   *)
(* decorator calls the function body, decides from what the body raised    *)
(* whether to call it again, and waits between the calls.  The input is    *)
(* what the server does at each attempt the decorator could make.          *)
(***************************************************************************)
StopAfterAttempt == 3

\* the class an exception class derives from (httpx and the scraper module)
BaseOf(class) ==
    CASE class = "ConnectError"     -> "TransportError"
      [] class = "TimeoutException" -> "TransportError"
      [] class = "TransportError"   -> "RequestError"
      [] class = "RequestError"     -> "HTTPError"
      [] class = "HTTPStatusError"  -> "HTTPError"
      [] class = "RateLimitError"   -> "ScraperError"
      [] OTHER                      -> "Exception"

RECURSIVE IsInstance(_, _)
IsInstance(class, of) ==
    \/ class = of
    \/ class # "Exception" /\ IsInstance(BaseOf(class), of)

\* what the server does to one request: a response with a status, or a
\* transport failure that makes client.get raise
Responds(status) == [responds |-> TRUE, status |-> status, raises |-> ""]
Fails(class) == [responds |-> FALSE, status |-> 0, raises |-> class]
ServerOutcomes ==
    {Responds(200), Responds(429), Responds(500),
     Fails("ConnectError"), Fails("TimeoutException")}
FetchInputs == [1..StopAfterAttempt -> ServerOutcomes]

\* what client.get and raise_for_status raise inside the try block
RaisedInTry(outcome) ==
    IF ~outcome.responds THEN outcome.raises
    ELSE IF outcome.status >= 400 THEN "HTTPStatusError" ELSE ""

\* the body of _make_request: the response, or the exception its except
\* clauses raise in place of the one caught
MakeRequestBody(outcome) ==
    LET caught == RaisedInTry(outcome)
    IN  IF caught = "" THEN [returned |-> TRUE, raised |-> ""]
        ELSE IF IsInstance(caught, "HTTPStatusError")
        THEN [returned |-> FALSE,
              raised |-> IF outcome.status = 429 THEN "RateLimitError"
                         ELSE "ScraperError"]
        ELSE IF IsInstance(caught, "RequestError")
        THEN [returned |-> FALSE, raised |-> "ScraperError"]
        ELSE [returned |-> FALSE, raised |-> caught]

\* retry=retry_if_exception_type((httpx.RequestError, httpx.TimeoutException)),
\* asked about the exception the body raised
RetryIf(raised) ==
    IsInstance(raised, "RequestError") \/ IsInstance(raised, "TimeoutException")

\* wait=wait_exponential(multiplier=1, min=2, max=10) after the given attempt
WaitExponential(attempt) == Max(2, Min(10, 2 ^ (attempt - 1)))

\* the decorated function from the given attempt on: the body's response is
\* returned; an exception the retry condition rejects is raised as it is; one
\* it accepts is retried after a wait, and RetryError is raised after the
\* last attempt
RECURSIVE Retrying(_, _, _)
Retrying(outcomes, attempt, waits) ==
    LET body == MakeRequestBody(outcomes[attempt])
    IN  IF body.returned
        THEN [status |-> "returned", attempts |-> attempt, waits |-> waits,
              raised |-> ""]
        ELSE IF ~RetryIf(body.raised)
        THEN [status |-> "raised", attempts |-> attempt, waits |-> waits,
              raised |-> body.raised]
        ELSE IF attempt >= StopAfterAttempt
        THEN [status |-> "raised", attempts |-> attempt, waits |-> waits,
              raised |-> "RetryError"]
        ELSE Retrying(outcomes, attempt + 1, Append(waits, WaitExponential(attempt)))

make_request(outcomes) == Retrying(outcomes, 1, <<>>)

FetchInit ==
    /\ FetchIdle
    /\ CoreIdle
    /\ ExtIdle("fetch")

Requested(outcomes, made) ==
    /\ fetch' = [status |-> made.status, outcomes |-> outcomes,
                 attempts |-> made.attempts, waits |-> made.waits,
                 raised |-> made.raised,
                 request_count |-> fetch.request_count
                                   + (IF made.status = "returned" THEN 1 ELSE 0)]
    /\ UNCHANGED coreVars
    /\ ExtUnchanged("fetch")

MakeRequest ==
    /\ fetch.status = "idle"
    /\ fetch.request_count < MaxRequests
    /\ \E outcomes \in FetchInputs : Requested(outcomes, make_request(outcomes))

FetchReturn ==
    /\ fetch.status # "idle"
    /\ fetch' = [NoFetch EXCEPT !.request_count = fetch.request_count]
    /\ UNCHANGED coreVars
    /\ ExtUnchanged("fetch")

FetchNext == MakeRequest \/ FetchReturn

FetchSpec == FetchInit /\ [][FetchNext]_vars


(***************************************************************************)
(* Claims about the similarity engine (specification Spec).                *)
(***************************************************************************)
InUnit(x) == 0 <= x /\ x <= One * One

\* the lexical similarity of two texts as the specification defines it: from
\* a vectorizer fitted on exactly these two texts
FreshLexical(text1, text2) == tfidf_similarity(NoVectorizer, text1, text2)

\* what compare() gives for the call on an engine that served no call before
FreshCompare(call) ==
    compare(engine, NoVectorizer, call.source, call.target, call.reply1, call.reply2).result

\* the embedding provider gave no embedding for one of the two texts of the call
EmbeddingFailed(call) ==
    \/ ~generate(get_company_text(call.source), call.reply1).success
    \/ ~generate(get_company_text(call.target), call.reply2).success

\* C1: every SimilarityMatch compare() returns has
\* similarity_score + gap_score = 1, whatever the pair and the configuration.
C1_ScorePlusGapIsOne ==
    simResult.kind = "match" =>
        simResult.similarity_score + simResult.gap_score = One * One

\* C1 witness: a match with a similarity strictly between 0 and 1 was returned.
C1_Witness ==
    /\ simResult.kind = "match"
    /\ simResult.similarity_score > 0
    /\ simResult.gap_score > 0

\* C2 (as claimed): every SimilarityMatch has similarity_score in [0,1] and
\* gap_score in [0,1], for every constructible engine, in both modes.
C2_ScoreInUnitInterval ==
    simResult.kind = "match" =>
        InUnit(simResult.similarity_score) /\ InUnit(simResult.gap_score)

\* C3 (as claimed): compare() is stateless per call: what it gives for a pair
\* is what an engine that served no call before gives for it.
C3_StatelessCompare ==
    simCall.called => simResult = FreshCompare(simCall)

\* the lexical fallback value of a call: a match whose description similarity
\* is the lexical similarity of the two texts
IsLexicalMatch(result, lexical) ==
    /\ result.kind = "match"
    /\ ~lexical.raised
    /\ result.desc_sim = lexical.value

\* C4 (as claimed): in embedding mode, when embedding generation fails for
\* either text, compare() still returns a SimilarityMatch, whose description
\* similarity is the lexical similarity of the two texts.
C4_FallbackReturnsLexical ==
    (simCall.called /\ engine.use_embeddings /\ EmbeddingFailed(simCall)) =>
        IsLexicalMatch(simResult,
                       FreshLexical(get_company_text(simCall.source),
                                    get_company_text(simCall.target)))


(***************************************************************************)
(* Claims about the scorer (specification ScorerSpec).                     *)
(***************************************************************************)
\* the dimensions for which the provider was called and failed in the call
FailedDimensions ==
    {d \in DOMAIN scoreCall.replies : scoreCall.replies[d].kind = "error"}

\* the DimensionScore the call computed for a dimension, as a set
ComputedFor(d) ==
    {scoreResult.computed[i] : i \in {k \in DOMAIN scoreResult.computed :
                                         scoreResult.computed[k].dimension = d}}

\* how often the call asked the provider about a dimension
ProviderCalls(d) ==
    Cardinality({k \in DOMAIN scoreResult.calls : scoreResult.calls[k] = d})

\* the names of the dimensions a response carries
ResponseDimensions(response) ==
    {response.dimensions[i].dimension : i \in DOMAIN response.dimensions}

\* C5: when the provider call fails for a dimension during score(), the
\* DimensionScore computed for that dimension is exactly the rule-based one
\* for the request, the provider is asked once only about that dimension, and
\* score() hands a response back.
C5_FallbackIsRuleBased ==
    scoreCall.called =>
        /\ \A d \in FailedDimensions :
              /\ ComputedFor(d) = {rule_based_score(scorer.weights, scoreCall.request, d)}
              /\ ProviderCalls(d) = 1
        /\ scoreResult.response.opportunity_id = scoreCall.request.opportunity_id

\* C5 witness: the provider failed for a dimension whose rule-based score is
\* not the baseline.
C5_Witness ==
    /\ scoreCall.called
    /\ \E d \in FailedDimensions : \E x \in ComputedFor(d) : x.score # 5

\* the scores of a sequence of DimensionScores are integers in 1..10
ScoresInRange(dims) == \A i \in DOMAIN dims : dims[i].score \in 1..10

\* C6: in every response of score(), and in every dimension score() computed
\* on the rule-based, the delegated and the fallback path, the score is an
\* integer in [1,10]; the overall score lies in [0,1].
C6_ScoresInRange ==
    scoreCall.called =>
        /\ ScoresInRange(scoreResult.response.dimensions)
        /\ ScoresInRange(scoreResult.computed)
        /\ scoreResult.response.overall_score.den > 0
        /\ 0 <= scoreResult.response.overall_score.num
        /\ scoreResult.response.overall_score.num
              <= scoreResult.response.overall_score.den

\* C6 witness: a response whose dimensions the rules moved up to 7 and down
\* to 3, with an overall score strictly between 0 and 1.
C6_Witness ==
    /\ scoreCall.called
    /\ \E i, j \in DOMAIN scoreResult.response.dimensions :
          /\ scoreResult.response.dimensions[i].score = 7
          /\ scoreResult.response.dimensions[j].score = 3
    /\ 0 < scoreResult.response.overall_score.num
    /\ scoreResult.response.overall_score.num < scoreResult.response.overall_score.den

C8_InvalidRejectedValidScored ==
    scoreCall.called =>
        IF validate_request(scoreCall.request).is_valid
        THEN /\ scoreResult.response.errors = <<>>
             /\ ResponseDimensions(scoreResult.response) = ScoringDimension
        ELSE /\ scoreResult.response.errors # <<>>
             /\ scoreResult.response.overall_score = ZeroScore

\* the sum of the weights of a mapping
WeightSum(weights) == SumSet(DOMAIN weights, weights)

\* C9 (as claimed): dimension weights that do not sum to 1.0 reject the
\* construction: a scorer exists only in an environment whose configured
\* weights sum to 1.0 (within the validator's tolerance), and the weights it
\* aggregates with sum to 1.0.
C9_WeightsSumToOne ==
    scorer.status = "ready" =>
        /\ Abs(WeightSum(settings.scoring_weights) - One) <= WeightTolerance
        /\ WeightSum(scorer.weights) = One


(***************************************************************************)
(* Claims about calculate_overall_score (specification AggSpec).           *)
(***************************************************************************)
FracEq(a, b) == a.num * b.den = b.num * a.den

\* the weight the aggregation uses for a DimensionScore: its own weight, or,
\* when that is zero, the supplied weight of its dimension (0.15 without one)
EffectiveWeight(dim, weights) ==
    IF dim.weight # 0 THEN dim.weight ELSE Get(weights, dim.dimension, 150)

\* sum of score * weight, and sum of weight, over the dimensions
WeightedTotal(dims, weights) ==
    SumSet(DOMAIN dims, [i \in DOMAIN dims |->
                            dims[i].score * EffectiveWeight(dims[i], weights)])
TotalWeight(dims, weights) ==
    SumSet(DOMAIN dims, [i \in DOMAIN dims |-> EffectiveWeight(dims[i], weights)])

\* the example of the specification: scores a = 10, b = 2 aggregated under the
\* supplied weights {a: 0.5, b: 0.5}
IsSpecExample(in) ==
    /\ Len(in.dimensions) = 2
    /\ in.dimensions[1] = DimensionScore("a", 10, 0, 80)
    /\ in.dimensions[2] = DimensionScore("b", 2, 0, 80)
    /\ in.weights = [n \in AggNames |-> 500]

\* C10 (as claimed): calculate_overall_score returns the weighted mean of the
\* scores under the supplied weights, divided by 10, whenever a weight is
\* supplied for every dimension.
C10_MeanUnderSuppliedWeights ==
    (aggOut.returned /\ ResponseDimensions(aggIn) \subseteq DOMAIN aggIn.weights) =>
        FracEq(aggOut.overall_score,
               calculate_overall_score_Supplied(aggIn.dimensions, aggIn.weights))

\* C10 (amended): calculate_overall_score returns
\* (sum of score_i * weight_i) / (sum of weight_i) / 10 where weight_i is the
\* DimensionScore's own weight when that is not zero, and otherwise the
\* supplied weight of the dimension (0.15 when none is supplied); it returns
\* 0.0 without dimensions or with a zero weight sum; the specification's
\* example gives 0.6.
C10_MeanUnderEffectiveWeights ==
    aggOut.returned =>
        /\ IF aggIn.dimensions = <<>> \/ TotalWeight(aggIn.dimensions, aggIn.weights) = 0
           THEN aggOut.overall_score = ZeroScore
           ELSE /\ aggOut.overall_score.den > 0
                /\ aggOut.overall_score.num * 10 * TotalWeight(aggIn.dimensions, aggIn.weights)
                     = WeightedTotal(aggIn.dimensions, aggIn.weights)
                          * aggOut.overall_score.den
        /\ IsSpecExample(aggIn) => FracEq(aggOut.overall_score, [num |-> 6, den |-> 10])

\* C10 witness: two dimensions with own weights 0.15 and 0.5 were aggregated
\* under supplied weights 0.5 and 0.5, and the result is not their mean under
\* the supplied weights.
C10_Witness ==
    /\ aggOut.returned
    /\ Len(aggIn.dimensions) = 2
    /\ aggIn.dimensions[1].weight = 150
    /\ aggIn.dimensions[2].weight = 500
    /\ aggIn.dimensions[1].score # aggIn.dimensions[2].score
    /\ aggIn.weights = [n \in AggNames |-> 500]
    /\ ~FracEq(aggOut.overall_score, [num |-> aggIn.dimensions[1].score
                                               + aggIn.dimensions[2].score,
                                      den |-> 20])


(***************************************************************************)
(* Claims about the searches (specification MatchSpec) and the loads       *)
(* (specification LoadSpec).                                               *)
(***************************************************************************)
SimilarityOf(m) == m.match.similarity_score

\* descending similarity
Descending(matches) ==
    \A i, j \in DOMAIN matches :
        i < j => SimilarityOf(matches[i]) >= SimilarityOf(matches[j])

\* descending similarity, candidates of equal similarity in their input order
DescendingStable(matches) ==
    \A i, j \in DOMAIN matches :
        i < j => \/ SimilarityOf(matches[i]) > SimilarityOf(matches[j])
                 \/ /\ SimilarityOf(matches[i]) = SimilarityOf(matches[j])
                    /\ matches[i].index < matches[j].index

\* compare() was called once for each loaded candidate, in the input order
EveryCandidateScored(scored) ==
    /\ Len(scored) = Len(indian_startups)
    /\ \A i \in DOMAIN scored : scored[i].index = i

\* no candidate left out of the matches ranks before one of them
NoneBetter(matches, scored) ==
    \A c \in Range(scored) \ Range(matches) : \A r \in Range(matches) :
        \/ SimilarityOf(c) < SimilarityOf(r)
        \/ SimilarityOf(c) = SimilarityOf(r) /\ c.index > r.index

\* C11 (as claimed): find_best_match(source, top_n) scores the source against
\* every loaded candidate and returns the first top_n matches in descending
\* order of similarity, equal ones in input order; min(top_n, candidates)
\* matches, none without candidates.
C11_TopMatchesReturned ==
    (matchCall.kind = "find_best_match" /\ matchCall.top_n >= 0) =>
        /\ ~matchResult.raised
        /\ EveryCandidateScored(matchResult.scored)
        /\ Len(matchResult.matches) = Min(matchCall.top_n, Len(indian_startups))
        /\ Range(matchResult.matches) \subseteq Range(matchResult.scored)
        /\ DescendingStable(matchResult.matches)
        /\ NoneBetter(matchResult.matches, matchResult.scored)

\* C12 (as claimed): find_all_matches(source, threshold) returns exactly the
\* matches of the loaded candidates whose similarity is at least the
\* threshold, in descending order of similarity.
C12_AllAboveThreshold ==
    matchCall.kind = "find_all_matches" =>
        /\ ~matchResult.raised
        /\ EveryCandidateScored(matchResult.scored)
        /\ Range(matchResult.matches) =
              {c \in Range(matchResult.scored) : SimilarityOf(c) >= matchCall.threshold}
        /\ Len(matchResult.matches) = Cardinality(Range(matchResult.matches))
        /\ Descending(matchResult.matches)

\* C13 (as claimed): with candidates loaded, detect_gap classifies by the
\* best match's similarity s: s < 0.3 "high", s < 0.5 "medium", s < 0.7 "low",
\* otherwise "saturated"; gap_detected is s < 0.5; the best match is a
\* candidate of maximal similarity.
C13_GapClassified ==
    (matchCall.kind = "detect_gap" /\ indian_startups # <<>>) =>
        /\ ~matchResult.raised
        /\ EveryCandidateScored(matchResult.scored)
        /\ matchResult.result.best_match \in Range(matchResult.scored)
        /\ \A c \in Range(matchResult.scored) :
              SimilarityOf(c) <= SimilarityOf(matchResult.result.best_match)
        /\ LET s == SimilarityOf(matchResult.result.best_match)
           IN  /\ matchResult.result.gap_detected <=> (s < 500 * One)
               /\ (s < 300 * One) => matchResult.result.opportunity_level = "high"
               /\ (300 * One <= s /\ s < 500 * One)
                     => matchResult.result.opportunity_level = "medium"
               /\ (500 * One <= s /\ s < 700 * One)
                     => matchResult.result.opportunity_level = "low"
               /\ (s >= 700 * One) => matchResult.result.opportunity_level = "saturated"

\* C14: detect_gap on an engine without candidates returns gap_detected = true
\* and opportunity_level = "high", whatever the source.
C14_NoCandidatesIsHighGap ==
    (matchCall.kind = "detect_gap" /\ indian_startups = <<>>) =>
        /\ matchResult.returned
        /\ ~matchResult.raised
        /\ matchResult.result.gap_detected
        /\ matchResult.result.opportunity_level = "high"
        /\ matchResult.result.all_matches = <<>>

\* C14 witness: detect_gap answered for a source with text on an engine
\* without candidates.
C14_Witness ==
    /\ matchCall.kind = "detect_gap"
    /\ indian_startups = <<>>
    /\ matchCall.source # EmptyCompany
    /\ matchResult.returned
    /\ matchResult.result.gap_detected

\* the texts of the loaded candidates, as the matrix would hold them
LoadedTexts == [i \in DOMAIN indian_startups |-> startup_text(indian_startups[i])]

\* C15 (as claimed): after a load that asked for the rebuild, the stored
\* embedding matrix, if any, was built from the candidate list now loaded.
C15_MatrixOfCurrentList ==
    (matchCall.kind = "load_indian_startups" /\ matchCall.rebuild_embeddings
        /\ startup_embeddings.built) =>
        startup_embeddings.rows = LoadedTexts


(***************************************************************************)
(* The delegated path of a dimension: the score and the reasoning of a     *)
(* DimensionScore that was made from a response of the provider.           *)
(***************************************************************************)
\* the number of characters of a text
RECURSIVE CharsOf(_)
CharsOf(content) ==
    IF content = <<>> THEN 0 ELSE Head(content).chars + CharsOf(Tail(content))

\* the positions of score()'s computed dimensions that a response answered
AnsweredByProvider ==
    {i \in DOMAIN scoreResult.computed :
        /\ scoreResult.computed[i].dimension \in DOMAIN scoreCall.replies
        /\ scoreCall.replies[scoreResult.computed[i].dimension].kind = "content"}

\* the response a computed dimension was made from
ResponseFor(i) == scoreCall.replies[scoreResult.computed[i].dimension].content

\* parsed is the first integer of the text, brought into 1..10, and 5 when
\* the text has no integer
IsFirstIntegerClamped(parsed, content) ==
    IF \E k \in DOMAIN content : content[k].digits
    THEN \E k \in DOMAIN content :
            /\ content[k].digits
            /\ \A j \in 1..(k - 1) : ~content[j].digits
            /\ parsed = (IF content[k].value > 10 THEN 10
                         ELSE IF content[k].value < 1 THEN 1 ELSE content[k].value)
    ELSE parsed = 5

\* reasoning is the first characters of the text, up to the limit
IsTruncationOf(reasoning, content) ==
    /\ CharsOf(reasoning) = Min(ReasoningLimit, CharsOf(content))
    /\ Len(reasoning) <= Len(content)
    /\ \A k \in DOMAIN reasoning :
          /\ reasoning[k].digits = content[k].digits
          /\ reasoning[k].value = content[k].value
          /\ reasoning[k].chars <= content[k].chars
          /\ k < Len(reasoning) => reasoning[k].chars = content[k].chars

\* C16: on the delegated path the score of a dimension is the first integer
\* of the provider's response, clamped into [1,10], and 5 when the response
\* has no integer; the reasoning is the response text truncated
C16_FirstIntegerClamped ==
    scoreCall.called =>
        \A i \in AnsweredByProvider :
            /\ IsFirstIntegerClamped(scoreResult.computed[i].score, ResponseFor(i))
            /\ IsTruncationOf(scoreResult.computed[i].reasoning, ResponseFor(i))

\* a response with two integers scored by its first, next to a response of
\* 601 characters whose reasoning lost its end
C16_Witness ==
    /\ scoreCall.called
    /\ \E i, j \in AnsweredByProvider :
          /\ ResponseFor(i) = <<Word, Digits(7), Digits(10)>>
          /\ scoreResult.computed[i].score = 7
          /\ ResponseFor(j) = <<Word, Word, Digits(3)>>
          /\ scoreResult.computed[j].score = 3
          /\ scoreResult.computed[j].reasoning # ResponseFor(j)


(***************************************************************************)
(* The level and the next steps of a response that score() made from seven *)
(* dimensions.                                                             *)
(***************************************************************************)
\* score() returned a response without errors
ScoredSuccessfully == scoreCall.called /\ scoreResult.response.errors = <<>>

\* overall_score >= tenths / 10
AtLeastTenths(overall_score, tenths) ==
    10 * overall_score.num >= tenths * overall_score.den

\* C17: a successfully scored response has the level of its overall score:
\* "high" from 0.7, "medium" from 0.5, "low" from 0.3, "very_low" below; the
\* values 0.7, 0.5 and 0.3 themselves are in the higher bucket
C17_LevelFromOverallScore ==
    ScoredSuccessfully =>
        LET overall == scoreResult.response.overall_score
            level   == scoreResult.response.opportunity_level
        IN  /\ level \in {"high", "medium", "low", "very_low"}
            /\ level = "high" <=> AtLeastTenths(overall, 7)
            /\ level = "medium" <=> AtLeastTenths(overall, 5) /\ ~AtLeastTenths(overall, 7)
            /\ level = "low" <=> AtLeastTenths(overall, 3) /\ ~AtLeastTenths(overall, 5)
            /\ level = "very_low" <=> ~AtLeastTenths(overall, 3)

\* a response whose overall score is exactly 0.5, with the level "medium"
C17_Witness ==
    /\ ScoredSuccessfully
    /\ 10 * scoreResult.response.overall_score.num
         = 5 * scoreResult.response.overall_score.den
    /\ scoreResult.response.opportunity_level = "medium"


\* C18: with recommendations enabled, a successfully scored response has at
\* most 5 next steps; from an overall score of 0.6 the first is the MVP step
\* and the last the pilot step, below 0.6 the first is the market research
\* step and the last the partnership step
C18_NextStepsFramed ==
    (ScoredSuccessfully /\ scoreCall.request.include_recommendations) =>
        LET steps   == scoreResult.response.next_steps
            overall == scoreResult.response.overall_score
        IN  /\ Len(steps) \in 2..5
            /\ AtLeastTenths(overall, 6) =>
                  /\ steps[1] = "Proceed with MVP development"
                  /\ steps[Len(steps)] = "Set up pilot in Tier 1 city"
            /\ ~AtLeastTenths(overall, 6) =>
                  /\ steps[1] = "Conduct deeper market research"
                  /\ steps[Len(steps)] = "Consider strategic partnership"

\* five steps for an overall score of 0.6 or more: the MVP step, a step for
\* each of the three weakest dimensions, and the pilot step as the fifth
C18_Witness ==
    /\ ScoredSuccessfully
    /\ scoreCall.request.include_recommendations
    /\ AtLeastTenths(scoreResult.response.overall_score, 6)
    /\ Len(scoreResult.response.next_steps) = 5
    /\ scoreResult.response.next_steps[5] = "Set up pilot in Tier 1 city"


(***************************************************************************)
(* calculate_category_match as a function of two tag lists.                *)
(***************************************************************************)
\* the set of the lowercased tags of a list
LoweredTags(tags) == {Lower(tags[i]) : i \in DOMAIN tags}

\* C19: calculate_category_match(A, B) is the Jaccard index of the lowercased
\* tag sets when both lists are non-empty and the neutral 0.5 when either is
\* empty; it is 1.0 for (X, X) with X non-empty, lies in [0,1] and does not
\* change when A and B are swapped
C19_CategoryMatchIsJaccard ==
    catOut.returned =>
        LET A == catIn.source_categories
            B == catIn.target_categories
        IN  /\ (A = <<>> \/ B = <<>>) => catOut.match = Neutral
            /\ (A # <<>> /\ B # <<>>) =>
                  catOut.match * Cardinality(LoweredTags(A) \cup LoweredTags(B))
                      \in LET exact == One * Cardinality(LoweredTags(A) \cap LoweredTags(B))
                          IN  (exact - Cardinality(LoweredTags(A) \cup LoweredTags(B)) + 1)..exact
            /\ (A # <<>> /\ A = B) => catOut.match = One
            /\ catOut.match \in 0..One
            /\ catOut.match = catOut.swapped

\* tags that differ in case only count as one: ["Food"] against
\* ["food", "SaaS"] matches by one tag of two
C19_Witness ==
    /\ catOut.returned
    /\ catIn.source_categories = <<"Food">>
    /\ catIn.target_categories = <<"food", "SaaS">>
    /\ catOut.match = One \div 2


(***************************************************************************)
(* The keyword_overlap sub-score of a match compare() returned.            *)
(***************************************************************************)
\* the keywords extracted from the text of a company
KeywordsOf(company) == Range(process_keywords(get_company_text(company)))

\* C20 (as claimed): keyword_overlap is the Jaccard index of the two keyword
\* sets, and the neutral 0.5 whenever the source or the target has no
\* keywords
C20_KeywordOverlapNeutral ==
    simResult.kind = "match" =>
        LET k1 == KeywordsOf(simCall.source)
            k2 == KeywordsOf(simCall.target)
        IN  IF k1 = {} \/ k2 = {}
            THEN simResult.kw_overlap = Neutral
            ELSE simResult.kw_overlap * Cardinality(k1 \cup k2)
                     \in (One * Cardinality(k1 \cap k2) - Cardinality(k1 \cup k2) + 1)
                         ..(One * Cardinality(k1 \cap k2))


(***************************************************************************)
(* compare() of a record with itself, in lexical mode.                     *)
(***************************************************************************)
\* the call compares a record that has tags and keywords with itself, on a
\* lexical engine with the default weights
SelfCompare ==
    /\ simCall.called
    /\ ~engine.use_embeddings
    /\ engine.weights = DefaultWeights
    /\ simCall.source = simCall.target
    /\ simCall.source.tags # <<>>
    /\ KeywordsOf(simCall.source) # {}

\* C21 (as claimed): compare(A, A) in lexical mode yields a match with
\* similarity_score 1.0, also when it is the first comparison of the engine
C21_SelfCompareIsOne ==
    SelfCompare => (simResult.kind = "match" /\ simResult.similarity_score = One * One)


(***************************************************************************)
(* generate_batch_async: the requests in flight and the result.            *)
(***************************************************************************)
\* the tasks whose request the provider has not answered yet
InFlight == {i \in DOMAIN batch.pc : batch.pc[i] = "requesting"}

\* the texts of the batch that got an embedding, in the order of the texts
RECURSIVE EmbeddedTexts(_)
EmbeddedTexts(i) ==
    IF i = 0 THEN <<>>
    ELSE EmbeddedTexts(i - 1)
         \o (IF batch.results[i].success THEN <<EmbeddingOf(batch.texts[i])>> ELSE <<>>)

\* C22: at most max_concurrent provider requests run at any time; a batch
\* that returned accounts for every text exactly once, as an embedding (of
\* a text whose request succeeded) or as an error entry (of a text that was
\* empty or whose request failed), whatever happened to the other texts
C22_BoundedAndAccounted ==
    /\ Cardinality(InFlight) <= batch.max_concurrent
    /\ (batch.status = "returned" /\ batch.texts # <<>>) =>
          /\ Len(batch.returned.embeddings) + Len(batch.returned.errors) = Len(batch.texts)
          /\ batch.returned.embeddings = EmbeddedTexts(Len(batch.texts))
          /\ Range(batch.returned.errors) = {i \in DOMAIN batch.texts : ~batch.results[i].success}
          /\ \A i \in DOMAIN batch.texts :
                batch.results[i].success => batch.texts[i] # <<>>
          /\ batch.returned.success <=> batch.returned.errors = <<>>

\* a batch of three texts under a limit of 2 returned with one failed
\* request between two embeddings
C22_Witness ==
    /\ batch.status = "returned"
    /\ batch.max_concurrent = 2
    /\ Len(batch.texts) = 3
    /\ batch.results[1].success /\ ~batch.results[2].success /\ batch.results[3].success
    /\ batch.texts[2] # <<>>
    /\ Len(batch.returned.embeddings) = 2
    /\ batch.returned.errors = <<2>>


(***************************************************************************)
(* clean_text and process on a text of characters.                         *)
(***************************************************************************)
\* the call gave process() the empty string or None
EmptyOrNull == textCall.kind = "process" /\ (textCall.text.null \/ textCall.text.chars = <<>>)

\* C23 (as claimed): process() on empty or null input does not raise and
\* returns a document whose cleaned text, tokens, keywords, bigrams and
\* trigrams are empty and whose counts are 0
C23_EmptyInputEmptyDocument ==
    EmptyOrNull =>
        /\ ~textCall.out.raised
        /\ textCall.out.cleaned = <<>>
        /\ textCall.out.tokens = <<>>
        /\ textCall.out.keywords = <<>>
        /\ textCall.out.bigrams = <<>>
        /\ textCall.out.trigrams = <<>>
        /\ textCall.out.word_count = 0
        /\ textCall.out.vocabulary_size = 0

\* C25 (as claimed): clean_text(clean_text(t)) = clean_text(t) for every t
C25_CleanTextIdempotent ==
    textCall.kind = "clean_text" => textCall.recleaned = textCall.cleaned


(***************************************************************************)
(* infer_category.                                                         *)
(***************************************************************************)
\* the category has a keyword that occurs in the text
HasHit(category, text) ==
    \E i \in DOMAIN CATEGORY_KEYWORDS :
        /\ CATEGORY_KEYWORDS[i].category = category
        /\ \E k \in DOMAIN CATEGORY_KEYWORDS[i].keywords :
              InText(CATEGORY_KEYWORDS[i].keywords[k], text)

\* some category has a hit
AnyHit(text) == \E i \in DOMAIN CATEGORY_KEYWORDS : HasHit(CATEGORY_KEYWORDS[i].category, text)

\* C24 (as claimed): infer_category returns only categories with at least
\* one keyword hit, the first with confidence 1.0, in descending order of
\* confidence; without any hit it returns the default category alone, with
\* confidence 0.5
C24_OnlyCategoriesWithHits ==
    (inferCall.called /\ inferCall.top_n >= 1) =>
        LET result == inferCall.result
        IN  IF AnyHit(inferCall.text)
            THEN /\ \A i \in DOMAIN result : HasHit(result[i].category, inferCall.text)
                 /\ result # <<>>
                 /\ result[1].num = result[1].den
                 /\ \A i \in 1..(Len(result) - 1) :
                       result[i].num * result[i + 1].den >= result[i + 1].num * result[i].den
            ELSE result = <<[category |-> "consumer", num |-> 1, den |-> 2]>>


\* C26: a get returns the value most recently set for the key while the ttl
\* given to set (otherwise default_ttl) has not elapsed, and None once it has
\* elapsed, after a delete or clear, or when the key was never set.
C26_GetFollowsTtl ==
    cacheCall.op = "get" => cacheCall.result = cacheCall.expected

\* C27: a call of a wrapped function whose entry is unexpired does not run
\* the function and returns the result of the call that stored the entry,
\* whatever that result was.
C27_RunAtMostOnce ==
    (cacheCall.op = "cached" /\ cacheCall.live)
        => (~cacheCall.ran /\ cacheCall.result = cacheCall.expected)


\* C28: once every score() call on the instance has returned, use_llm is
\* what the scorer was constructed with, and no call's dimension has taken
\* the rules instead of the delegated path because of another call's fallback.
AllReturned == \A t \in Threads : scoreCalls.threads[t].pc = "done"
C28_UseLlmUntouched ==
    /\ scoreCalls.threads # <<>> /\ AllReturned
            => scoreCalls.use_llm = scoreCalls.configured
    /\ scoreCalls.threads # <<>>
            => \A t \in Threads : ~scoreCalls.threads[t].skipped


\* the rules of a dimension's rule table in the order the method applies
\* them, one entry for every time a rule fires on the request
Firings(up, n, delta, bound) ==
    [i \in 1..n |-> [up |-> up, delta |-> delta, bound |-> bound]]
Once(condition) == IF condition THEN 1 ELSE 0
RulesFired(dimension, request) ==
    LET combined == Combined(request)
        description == Description(request)
    IN  CASE dimension = "cultural_fit" ->
                Firings(TRUE, Hits(high_cultural_fit_categories, combined), 2, 9)
                \o Firings(FALSE, Hits(cultural_barriers, combined), 2, 3)
                \o Firings(TRUE, Hits(western_concepts, description), 1, 7)
          [] dimension = "logistics" ->
                Firings(FALSE, Hits(high_logistics_categories, combined), 3, 3)
                \o Firings(TRUE, Hits(low_logistics_categories, combined), 2, 9)
                \o Firings(FALSE, Once(ContainsAny(combined,
                                    {"offline", "physical store", "warehouse"})), 2, 4)
                \o Firings(FALSE, Once(Contains(combined, "iot")
                                       \/ Contains(combined, "smart home")), 1, 4)
          [] dimension = "regulatory_risk" ->
                Firings(FALSE, Hits(high_regulatory_risk_categories, combined), 3, 2)
                \o Firings(TRUE, Once(ContainsAny(combined,
                                    {"saas", "software", "tool", "productivity"})), 2, 8)
                \o Firings(FALSE, Once(ContainsAny(combined,
                                    {"data", "user data", "personal"})), 1, 4)
RuledDimensions == {"cultural_fit", "logistics", "regulatory_risk"}

\* the score before and after every firing, from the starting score
RECURSIVE RuleTrace(_, _)
RuleTrace(rules, before) ==
    IF rules = <<>> THEN <<>>
    ELSE LET rule == Head(rules)
             after == IF rule.up THEN RaiseIf(TRUE, before, rule.delta, rule.bound)
                      ELSE LowerIf(TRUE, before, rule.delta, rule.bound)
         IN  <<[up |-> rule.up, before |-> before, after |-> after]>>
             \o RuleTrace(Tail(rules), after)

\* the score the trace ends with
TraceEnd(trace, start) == IF trace = <<>> THEN start ELSE trace[Len(trace)].after

\* the last call was scored by the rules, and the traces end with the scores
\* the response carries
ScoredByRules ==
    /\ ScoredSuccessfully
    /\ ~scorer.use_llm
    /\ \A i \in DOMAIN scoreResult.computed :
          scoreResult.computed[i].dimension \in RuledDimensions =>
              scoreResult.computed[i].score =
                  ClampScore(TraceEnd(RuleTrace(RulesFired(scoreResult.computed[i].dimension,
                                                           scoreCall.request), 5), 5))

\* C29: on the rule-based path a rule for a negative indicator never leaves
\* the score higher than it found it, and a rule for a positive indicator
\* never leaves it lower.
C29_RulesMoveOneWay ==
    ScoredByRules =>
        \A dimension \in RuledDimensions :
            LET trace == RuleTrace(RulesFired(dimension, scoreCall.request), 5)
            IN  \A k \in DOMAIN trace :
                    IF trace[k].up THEN trace[k].after >= trace[k].before
                    ELSE trace[k].after <= trace[k].before

\* every call scored without delegation is one the traces account for
RuleTracesAreTheScores ==
    (ScoredSuccessfully /\ ~scorer.use_llm) => ScoredByRules


\* the server failed the attempt in transport (connection error or timeout)
TransportFailure(outcome) == ~outcome.responds

\* the attempt up to which a request is retried: the first the server
\* answers, or the last of the three
LastAttemptDue(outcomes) ==
    IF \E k \in DOMAIN outcomes : ~TransportFailure(outcomes[k])
    THEN CHOOSE k \in DOMAIN outcomes :
            /\ ~TransportFailure(outcomes[k])
            /\ \A j \in 1..(k - 1) : TransportFailure(outcomes[j])
    ELSE Len(outcomes)

\* C30: a request failing in transport is made again, with growing waits, up
\* to 3 attempts; ScraperError reaches the caller for a transport failure
\* only when the third attempt failed too; a status error is raised as
\* RateLimitError (429) or ScraperError by the attempt that met it.
C30_TransportFailuresRetried ==
    fetch.status # "idle" =>
        LET last == LastAttemptDue(fetch.outcomes)
            outcome == fetch.outcomes[last]
        IN  /\ fetch.attempts = last
            /\ Len(fetch.waits) = last - 1
            /\ \A k \in 2..Len(fetch.waits) : fetch.waits[k] >= fetch.waits[k - 1]
            /\ TransportFailure(outcome)
                   => fetch.status = "raised" /\ fetch.raised = "ScraperError"
            /\ (outcome.responds /\ outcome.status = 429)
                   => fetch.status = "raised" /\ fetch.raised = "RateLimitError"
            /\ (outcome.responds /\ outcome.status # 429 /\ outcome.status >= 400)
                   => fetch.status = "raised" /\ fetch.raised = "ScraperError"
            /\ (outcome.responds /\ outcome.status < 400) => fetch.status = "returned"

=============================================================================
